---- MODULE Spec2Model ----
(***************************************************************************)
(* Model of the SEO article generation service: the HTTP surface           *)
(* (app/main.py), the job table (app/database/models.py) and the ten-step  *)
(* pipeline of ArticleGenerationOrchestrator (app/agents/orchestrator.py)  *)
(* with the agents it calls.                                               *)
(*                                                                         *)
(* A job id is a uuid4 string; it is modelled as a fresh number 1..MaxJobs.*)
(* An optional column or local (None in Python) is the empty tuple NULL,   *)
(* a present value v is <<v>>.  Texts produced by the model or by the      *)
(* canned fallbacks are abstracted to where they came from ("model",       *)
(* "fallback", ...), the timestamps to the tick of a logical clock that    *)
(* only says "set".  Every storage commit may fail (the orchestrator       *)
(* catches and logs such failures, generate_article lets them propagate).  *)
(***************************************************************************)
EXTENDS Integers, Sequences, FiniteSets, TLC

\* ------------------------------------------------------------------ bounds

\* Number of job ids the model hands out (uuid4 draws).
MaxJobs == 2

JobIds == 1..MaxJobs

\* Ids a client may poll: every id that can be handed out and one that never is.
PollIds == 0..MaxJobs

NULL == <<>>

Some(v) == <<v>>

IsNull(x) == x = NULL

\* ------------------------------------------------------------ request model

\* ArticleGenerationRequest.topic: min_length / max_length.
TopicMinLength == 3

TopicMaxLength == 200

\* ArticleGenerationRequest.target_word_count: ge / le.
WordCountMin == 500

WordCountMax == 5000

\* The characters a language code is drawn from in the model, and the ones
\* the class [a-z] of the pattern accepts.
LangChars == {"e", "n", "E", "1"}

LowerLetters == {"e", "n"}

\* pattern="^[a-z]{2}$": the whole string is exactly two characters of [a-z].
LanguagePatternMatches(lang) ==
    /\ Len(lang) = 2
    /\ \A i \in 1..Len(lang) : lang[i] \in LowerLetters

\* A request as the validation sees it: the topic by its length, the target
\* word count, the language code as a string of characters.
TopicLengths == {2, 3, 200, 201}

WordCounts == {499, 500, 5000, 5001}

Languages == {<<"e", "n">>, <<"E", "n">>, <<"e">>, <<"e", "n", "e">>, <<"e", "1">>}

Requests == [topic_len : TopicLengths, target_word_count : WordCounts, language : Languages]

\* Pydantic validation of ArticleGenerationRequest, run by the framework
\* before the body of generate_article.
ValidationBoundaryOff(req) ==
    /\ req.topic_len >= TopicMinLength
    /\ req.topic_len <= TopicMaxLength
    /\ req.target_word_count >= WordCountMin - 1
    /\ req.target_word_count <= WordCountMax + 1
    /\ LanguagePatternMatches(req.language)

ValidRequest(req) ==
    /\ req.topic_len >= TopicMinLength
    /\ req.topic_len <= TopicMaxLength
    /\ req.target_word_count >= WordCountMin
    /\ req.target_word_count <= WordCountMax
    /\ LanguagePatternMatches(req.language)

\* ------------------------------------------------------------------ statuses

\* JobStatusEnum (database) and its .value strings.
PENDING == "PENDING"

RUNNING == "RUNNING"

COMPLETED == "COMPLETED"

FAILED == "FAILED"

JobStatusEnum == {PENDING, RUNNING, COMPLETED, FAILED}

StatusValue(s) ==
    CASE s = PENDING -> "pending"
      [] s = RUNNING -> "running"
      [] s = COMPLETED -> "completed"
      [] s = FAILED -> "failed"

\* JobStatus (API enum): JobStatus(value) accepts exactly its four values.
JobStatusValues == {"pending", "running", "completed", "failed"}


\* --------------------------------------------------------------------- state

VARIABLES
    db,        \* table article_jobs: job id -> row
    uuids,     \* number of uuid4 ids drawn by generate_article so far
    returned,  \* job ids sent to a client in a 202 response
    last_post, \* the response to the latest POST /generate-article, or NULL
    pc,        \* per job id: position of its background task / of generate()
    loc,       \* per job id: the local variables of generate()
    ret,       \* per job id: how generate() ended: "none", "returned", "raised"
    log,       \* history, per job id: the pipeline steps begun and ended
    hist,      \* history, per job id: model calls that returned, commits that failed
    detail,    \* whether agent outputs are recorded by origin or only as present
    unit       \* the frame of an agent call examined on its own, or NULL

vars == <<db, uuids, returned, last_post, pc, loc, ret, log, hist, detail, unit>>

\* A row of article_jobs as generate_article creates it: the lifecycle columns.
\* (topic, target_word_count, language and created_at are written once here
\* and never read by the pipeline, which works on the request object.)
NewJob ==
    [status |-> PENDING, completed_at |-> NULL, serp_data |-> NULL,
     outline_data |-> NULL, result |-> NULL, error |-> NULL]

\* The locals of generate() before its first statement.
NoLocals ==
    [serp_results |-> NULL, serp_analysis |-> NULL, outline |-> NULL,
     article_content |-> NULL, seo_metadata |-> NULL, internal_links |-> NULL,
     external_refs |-> NULL, keyword_analysis |-> NULL, quality_report |-> NULL,
     result |-> NULL, e |-> NULL]

\* How an agent output is recorded: by origin when detail is on, otherwise
\* only as well-formed ("any") or malformed.
Tag(origin) ==
    IF detail \/ origin = "malformed" THEN origin ELSE "any"

NoHistory == [model_ok |-> Tag("no"), failed_writes |-> {}]

Init ==
    /\ db = <<>>
    /\ uuids = 0
    /\ returned = {}
    /\ last_post = NULL
    /\ pc = [j \in JobIds |-> "none"]
    /\ loc = [j \in JobIds |-> NoLocals]
    /\ ret = [j \in JobIds |-> [how |-> "none", value |-> NULL]]
    /\ log = [j \in JobIds |-> <<>>]
    /\ detail = FALSE
    /\ hist = [j \in JobIds |-> NoHistory]
    /\ unit = NULL

\* One run looked at in detail: the same service, a single job, every agent
\* output recorded by its origin.
InitRun ==
    /\ db = <<>>
    /\ uuids = 0
    /\ returned = {}
    /\ last_post = NULL
    /\ pc = [j \in JobIds |-> "none"]
    /\ loc = [j \in JobIds |-> NoLocals]
    /\ ret = [j \in JobIds |-> [how |-> "none", value |-> NULL]]
    /\ log = [j \in JobIds |-> <<>>]
    /\ detail = TRUE
    /\ hist = [j \in JobIds |-> NoHistory]
    /\ unit = NULL

\* db.query(ArticleJob).filter(ArticleJob.id == job_id).first():
\* the key of the row found, or NULL.  QueryAny drops the filter.
QueryAny(job_id) ==
    IF DOMAIN db = {} THEN NULL
    ELSE Some(CHOOSE k \in DOMAIN db : \A m \in DOMAIN db : k <= m)

QueryJob(job_id) ==
    IF job_id \in DOMAIN db THEN Some(job_id) ELSE NULL

\* ------------------------------------------------------------ HTTP handlers

\* The response of POST /generate-article to req when the id drawn is job_id
\* and the commit of the new row succeeds (committed) or raises.
generate_article_response(req, job_id, committed) ==
    IF ~ValidRequest(req) THEN [code |-> 422, job_id |-> NULL, status |-> NULL]
    ELSE IF ~committed THEN [code |-> 500, job_id |-> NULL, status |-> NULL]
    ELSE [code |-> 202, job_id |-> Some(job_id), status |-> Some("pending")]

\* POST /generate-article.  A request that fails validation never reaches the
\* body.  The body draws a uuid4, adds and commits the row with status
\* PENDING, queues run_generation(job_id, request) and returns the id.  A
\* commit that raises ends the request before the task is queued.
\* The mutant queues the task and returns although the commit raised.
generate_article_NoCommit(req, committed) ==
    /\ uuids < (IF detail THEN 1 ELSE MaxJobs)
    /\ LET job_id == uuids + 1
           response == generate_article_response(req, job_id, TRUE)
       IN  IF response.code = 422
           THEN /\ last_post' = Some(response)
                /\ UNCHANGED <<db, uuids, returned, pc, loc, ret, log, hist, detail, unit>>
           ELSE /\ uuids' = job_id
                /\ last_post' = Some(response)
                /\ db' = IF committed
                         THEN [k \in DOMAIN db \cup {job_id} |->
                                 IF k = job_id THEN NewJob ELSE db[k]]
                         ELSE db
                /\ pc' = [pc EXCEPT ![job_id] = "queued"]
                /\ returned' = returned \cup {job_id}
                /\ UNCHANGED <<loc, ret, log, hist, detail, unit>>

generate_article(req, committed) ==
    /\ uuids < (IF detail THEN 1 ELSE MaxJobs)
    /\ LET job_id == uuids + 1
           response == generate_article_response(req, job_id, committed)
       IN  IF response.code = 422
           THEN /\ last_post' = Some(response)
                /\ UNCHANGED <<db, uuids, returned, pc, loc, ret, log, hist, detail, unit>>
           ELSE /\ uuids' = job_id
                /\ last_post' = Some(response)
                /\ IF response.code = 202
                   THEN /\ db' = [k \in DOMAIN db \cup {job_id} |->
                                    IF k = job_id THEN NewJob ELSE db[k]]
                        /\ pc' = [pc EXCEPT ![job_id] = "queued"]
                        /\ returned' = returned \cup {response.job_id[1]}
                   ELSE UNCHANGED <<db, pc, returned>>
                /\ UNCHANGED <<loc, ret, log, hist, detail, unit>>

\* GET /job/{job_id}: 404 when no row has the id, otherwise the row's status
\* (database enum -> .value -> API enum), timestamps, result and error.
get_job_status(job_id) ==
    LET found == QueryJob(job_id) IN
    IF IsNull(found)
    THEN [code |-> 404, status |-> NULL, completed_at |-> NULL,
          result |-> NULL, error |-> NULL]
    ELSE LET job == db[found[1]]
             value == StatusValue(job.status)
         IN  [code |-> IF value \in JobStatusValues THEN 200 ELSE 500,
              status |-> Some(value), completed_at |-> job.completed_at,
              result |-> job.result, error |-> job.error]

\* A poll reads the table and changes nothing.
Poll(job_id) ==
    /\ get_job_status(job_id).code \in {200, 404}
    /\ UNCHANGED vars

\* ------------------------------------------------- orchestrator: job store

\* Each write opens a session, looks the row up by self.job_id, assigns,
\* commits; any exception is caught and logged, so a failed commit (ok =
\* FALSE) or a missing row leaves the table as it was.

\* _update_status(status)
update_status(job_id, status, ok) ==
    LET job == QueryJob(job_id) IN
    IF ok /\ ~IsNull(job)
    THEN [db EXCEPT ![job[1]].status = status]
    ELSE db

\* The mutant writes the row anew: the status and the named field, nothing else.
save_checkpoint_WholeRow(job_id, field, data, ok) ==
    LET job == QueryJob(job_id) IN
    IF ok /\ ~IsNull(job)
    THEN [db EXCEPT ![job[1]] =
             [[NewJob EXCEPT !.status = db[job[1]].status] EXCEPT ![field] = Some(data)]]
    ELSE db

\* _save_checkpoint(field, data): setattr(job, field, data)
save_checkpoint(job_id, field, data, ok) ==
    LET job == QueryJob(job_id) IN
    IF ok /\ ~IsNull(job)
    THEN [db EXCEPT ![job[1]][field] = Some(data)]
    ELSE db

\* The mutant stores the result and forgets the status.
save_result_NoStatus(job_id, result, ok) ==
    LET job == QueryJob(job_id) IN
    IF ok /\ ~IsNull(job)
    THEN [db EXCEPT ![job[1]].result = Some(result),
                    ![job[1]].completed_at = Some("utcnow")]
    ELSE db

\* _save_result(result): result, status COMPLETED and completed_at, one commit
save_result(job_id, result, ok) ==
    LET job == QueryJob(job_id) IN
    IF ok /\ ~IsNull(job)
    THEN [db EXCEPT ![job[1]].result = Some(result),
                    ![job[1]].status = COMPLETED,
                    ![job[1]].completed_at = Some("utcnow")]
    ELSE db

\* The mutant commits the status and the timestamp before the message.
save_error_StatusFirst(job_id, error, ok) ==
    LET job == QueryJob(job_id) IN
    IF ok /\ ~IsNull(job)
    THEN [db EXCEPT ![job[1]].status = FAILED,
                    ![job[1]].completed_at = Some("utcnow")]
    ELSE db

\* _save_error(error): error, status FAILED and completed_at, one commit
save_error(job_id, error, ok) ==
    LET job == QueryJob(job_id) IN
    IF ok /\ ~IsNull(job)
    THEN [db EXCEPT ![job[1]].error = Some(error),
                    ![job[1]].status = FAILED,
                    ![job[1]].completed_at = Some("utcnow")]
    ELSE db

\* History: the writes of a job whose commit failed.
NoteWrite(j, what, ok) ==
    IF ok THEN hist[j].failed_writes ELSE hist[j].failed_writes \cup {what}

\* ------------------------------------------------------------------ agents

\* What a model call made through generate_json can do: raise (after its
\* retries), return JSON of the shape the prompt asked for, or return JSON of
\* another shape.
JsonOutcomes == {"raise", "model", "malformed"}

\* The one-shot article call: raises, returns fewer than 500 characters, or
\* returns an article.
OneShotOutcomes == {"raise", "short", "ok"}

\* The per-section calls of the fallback path, taken together: every call
\* raised; none gave a usable text but some returned (too short); some
\* sections came from the model and some did not; all came from the model.
SectionOutcomes == {"raise", "short", "mixed", "ok"}

\* SerpAPIService.search: mock data, API results, or mock data after an API
\* error; never raises.
search == [raises |-> FALSE, value |-> "top10"]

\* SERPAnalyzer.analyze_serp_results: the model's analysis, or the templated
\* fallback on any exception.  A JSON object with fields of other types
\* (secondary_keywords not a list of strings) passes through.
analyze_serp_results(out) ==
    [raises |-> FALSE,
     value |-> IF out = "raise" THEN "fallback" ELSE out,
     model_returned |-> out # "raise"]

\* The mutant lets the failure of the model call out of generate_outline.
generate_outline_NoFallback(serp_analysis, out) ==
    IF serp_analysis = "malformed" \/ out = "raise"
    THEN [raises |-> TRUE, value |-> "TypeError in generate_outline",
          model_returned |-> FALSE]
    ELSE [raises |-> FALSE, value |-> out, model_returned |-> TRUE]

\* OutlineGenerator.generate_outline: the prompt is built before the try, so
\* an analysis whose lists cannot be joined raises; otherwise the model's
\* outline, or the fixed five-section outline on any exception.  An outline
\* whose h1 is not a string (a JSON array) passes through.
generate_outline(serp_analysis, out) ==
    IF serp_analysis = "malformed"
    THEN [raises |-> TRUE, value |-> "TypeError in generate_outline",
          model_returned |-> FALSE]
    ELSE [raises |-> FALSE,
          value |-> IF out = "raise" THEN "fallback" ELSE out,
          model_returned |-> out # "raise"]

\* ContentGenerator.generate_article: the one-shot article when the call
\* returns at least 500 characters; otherwise the section-by-section fallback,
\* where a section whose call fails or is too short gets the templated
\* paragraph.  ArticleContent(h1=...) rejects an h1 that is not a string on
\* both paths, the second time outside any try.
content_generate_article(outline, oneshot, sections) ==
    LET fallback_path == oneshot # "ok" \/ outline = "malformed"
        returned_some == oneshot # "raise" \/ (fallback_path /\ sections # "raise")
    IN  IF outline = "malformed"
        THEN [raises |-> TRUE, value |-> "ValidationError in generate_article",
              model_returned |-> returned_some]
        ELSE [raises |-> FALSE,
              value |-> IF ~fallback_path THEN "oneshot"
                        ELSE IF sections \in {"raise", "short"} THEN "sections_template"
                        ELSE IF sections = "mixed" THEN "sections_mixed"
                        ELSE "sections_model",
              model_returned |-> returned_some]

\* SEOMetadataGenerator.generate_seo_metadata: the model's tags, or the
\* fallback tags on any exception (a failed call, fields of the wrong type).
generate_seo_metadata(out) ==
    [raises |-> FALSE,
     value |-> IF out = "model" THEN "model" ELSE "fallback",
     model_returned |-> out # "raise"]

\* SEOMetadataGenerator.generate_internal_links: up to five links of the
\* model, or the one canned link on any exception.
generate_internal_links(out) ==
    [raises |-> FALSE,
     value |-> IF out = "model" THEN "model" ELSE "one_fallback_link",
     model_returned |-> out # "raise"]

\* SEOMetadataGenerator.generate_external_references: up to four references
\* of the model, or the one canned reference on any exception.
generate_external_references(out) ==
    [raises |-> FALSE,
     value |-> IF out = "model" THEN "model" ELSE "one_fallback_reference",
     model_returned |-> out # "raise"]

\* ArticleOutput(...) as generate() assembles it (step 10).
ArticleOutput(l) ==
    [article |-> l.article_content[1],
     seo_metadata |-> l.seo_metadata[1],
     keyword_analysis |-> l.keyword_analysis[1],
     internal_links |-> l.internal_links[1],
     external_references |-> l.external_refs[1],
     serp_analysis |-> l.serp_results[1]]

\* ---------------------------------------------------------------- pipeline

\* A mis-ordered generate(): internal links before the SEO metadata.
AfterSwapped(pos) ==
    CASE pos = "update_status" -> "serp"
      [] pos = "serp" -> "ckpt_serp"
      [] pos = "ckpt_serp" -> "analyze"
      [] pos = "analyze" -> "outline"
      [] pos = "outline" -> "ckpt_outline"
      [] pos = "ckpt_outline" -> "content"
      [] pos = "content" -> "links"
      [] pos = "links" -> "metadata"
      [] pos = "metadata" -> "references"
      [] pos = "references" -> "keywords"
      [] pos = "keywords" -> "validate"
      [] pos = "validate" -> "persist"
      [] pos = "persist" -> "return"

\* The statement of generate() that follows the one at pos (lines 135-243).
After(pos) ==
    CASE pos = "update_status" -> "serp"
      [] pos = "serp" -> "ckpt_serp"
      [] pos = "ckpt_serp" -> "analyze"
      [] pos = "analyze" -> "outline"
      [] pos = "outline" -> "ckpt_outline"
      [] pos = "ckpt_outline" -> "content"
      [] pos = "content" -> "metadata"
      [] pos = "metadata" -> "links"
      [] pos = "links" -> "references"
      [] pos = "references" -> "keywords"
      [] pos = "keywords" -> "validate"
      [] pos = "validate" -> "persist"
      [] pos = "persist" -> "return"

\* History: whether some model call of the run has returned.
NoteModel(j, model_returned) ==
    IF model_returned THEN Tag("yes") ELSE hist[j].model_ok

\* A step that returns: its result goes to the locals, generate() moves on.
StepReturns(j, step, locals, model_returned) ==
    /\ pc' = [pc EXCEPT ![j] = After(step)]
    /\ loc' = [loc EXCEPT ![j] = locals]
    /\ log' = [log EXCEPT ![j] = log[j] \o << <<"begin", step>>, <<"end", step>> >>]
    /\ hist' = [hist EXCEPT ![j].model_ok = NoteModel(j, model_returned)]
    /\ UNCHANGED <<db, uuids, returned, last_post, ret, detail, unit>>

\* A step that raises: control goes to the except clause of generate().
StepRaises(j, step, exc, model_returned) ==
    /\ pc' = [pc EXCEPT ![j] = "except"]
    /\ loc' = [loc EXCEPT ![j].e = Some(exc)]
    /\ log' = [log EXCEPT ![j] = Append(log[j], <<"begin", step>>)]
    /\ hist' = [hist EXCEPT ![j].model_ok = NoteModel(j, model_returned)]
    /\ UNCHANGED <<db, uuids, returned, last_post, ret, detail, unit>>

\* A job store write of generate(): never raises, generate() moves on.
Write(j, pos, what, newdb, ok) ==
    /\ pc' = [pc EXCEPT ![j] = After(pos)]
    /\ db' = newdb
    /\ hist' = [hist EXCEPT ![j].failed_writes = NoteWrite(j, what, ok)]
    /\ UNCHANGED <<uuids, returned, last_post, loc, ret, log, detail, unit>>

\* run_generation(job_id, request) starts: the orchestrator is built and
\* generate() entered.
RunGeneration(j) ==
    /\ pc[j] = "queued"
    /\ pc' = [pc EXCEPT ![j] = "update_status"]
    /\ UNCHANGED <<db, uuids, returned, last_post, loc, ret, log, hist, detail, unit>>

\* self._update_status(JobStatusEnum.RUNNING)
UpdateStatusRunning(j, ok) ==
    /\ pc[j] = "update_status"
    /\ Write(j, "update_status", "status", update_status(j, RUNNING, ok), ok)

\* Step 1: serp_results = self.serp_service.search(request.topic)
StepSerp(j) ==
    /\ pc[j] = "serp"
    /\ StepReturns(j, "serp", [loc[j] EXCEPT !.serp_results = Some(search.value)], FALSE)

\* self._save_checkpoint("serp_data", [...])
CheckpointSerp(j, ok) ==
    /\ pc[j] = "ckpt_serp"
    /\ Write(j, "ckpt_serp", "serp_data",
             save_checkpoint(j, "serp_data", loc[j].serp_results[1], ok), ok)

\* Step 2: serp_analysis = await self.serp_analyzer.analyze_serp_results(...)
StepAnalyze(j, out) ==
    /\ pc[j] = "analyze"
    /\ LET r == analyze_serp_results(out) IN
       StepReturns(j, "analyze",
                   [loc[j] EXCEPT !.serp_analysis = Some(Tag(r.value))],
                   r.model_returned)

\* Step 3: outline = await self.outline_generator.generate_outline(...)
StepOutline(j, out) ==
    /\ pc[j] = "outline"
    /\ LET r == generate_outline(loc[j].serp_analysis[1], out) IN
       IF r.raises
       THEN StepRaises(j, "outline", r.value, r.model_returned)
       ELSE StepReturns(j, "outline",
                        [loc[j] EXCEPT !.outline = Some(Tag(r.value))],
                        r.model_returned)

\* self._save_checkpoint("outline_data", outline)
CheckpointOutline(j, ok) ==
    /\ pc[j] = "ckpt_outline"
    /\ Write(j, "ckpt_outline", "outline_data",
             save_checkpoint(j, "outline_data", loc[j].outline[1], ok), ok)

\* Step 4: article_content = await self.content_generator.generate_article(...)
StepContent(j, oneshot, sections) ==
    /\ pc[j] = "content"
    /\ LET r == content_generate_article(loc[j].outline[1], oneshot, sections) IN
       IF r.raises
       THEN StepRaises(j, "content", r.value, r.model_returned)
       ELSE StepReturns(j, "content",
                        [loc[j] EXCEPT !.article_content = Some(Tag(r.value))],
                        r.model_returned)

\* Step 5: seo_metadata = await self.seo_generator.generate_seo_metadata(...)
StepMetadata(j, out) ==
    /\ pc[j] = "metadata"
    /\ LET r == generate_seo_metadata(out) IN
       StepReturns(j, "metadata",
                   [loc[j] EXCEPT !.seo_metadata = Some(Tag(r.value))],
                   r.model_returned)

\* Step 6: internal_links = await self.seo_generator.generate_internal_links(...)
StepLinks(j, out) ==
    /\ pc[j] = "links"
    /\ LET r == generate_internal_links(out) IN
       StepReturns(j, "links",
                   [loc[j] EXCEPT !.internal_links = Some(Tag(r.value))],
                   r.model_returned)

\* Step 7: external_refs = await self.seo_generator.generate_external_references(...)
StepReferences(j, out) ==
    /\ pc[j] = "references"
    /\ LET r == generate_external_references(out) IN
       StepReturns(j, "references",
                   [loc[j] EXCEPT !.external_refs = Some(Tag(r.value))],
                   r.model_returned)

\* Step 8: keyword_analysis = self.seo_generator.analyze_keywords(...)
StepKeywords(j) ==
    /\ pc[j] = "keywords"
    /\ StepReturns(j, "keywords",
                   [loc[j] EXCEPT !.keyword_analysis = Some(Tag("computed"))], FALSE)

\* Step 9: quality_report = self.quality_validator.validate_seo_quality(...)
StepValidate(j, passed) ==
    /\ pc[j] = "validate"
    /\ StepReturns(j, "validate",
                   [loc[j] EXCEPT !.quality_report =
                        Some(Tag(IF passed THEN "passed" ELSE "needs_review"))], FALSE)

\* The mutant stores the result only of a run whose report has passed.
StepPersist_Gated(j, ok) ==
    /\ pc[j] = "persist"
    /\ LET result == ArticleOutput(loc[j])
           passed == loc[j].quality_report # Some("needs_review")
       IN
       /\ pc' = [pc EXCEPT ![j] = After("persist")]
       /\ loc' = [loc EXCEPT ![j].result = Some(result)]
       /\ db' = IF passed THEN save_result(j, result, ok)
                          ELSE save_error(j, <<"Generation failed", "quality">>, ok)
       /\ log' = [log EXCEPT ![j] =
                    log[j] \o << <<"begin", "persist">>, <<"end", "persist">> >>]
       /\ hist' = [hist EXCEPT ![j].failed_writes = NoteWrite(j, "result", ok)]
       /\ UNCHANGED <<uuids, returned, last_post, ret, detail, unit>>

\* Step 10: result = ArticleOutput(...); self._save_result(result)
StepPersist(j, ok) ==
    /\ pc[j] = "persist"
    /\ LET result == ArticleOutput(loc[j]) IN
       /\ pc' = [pc EXCEPT ![j] = After("persist")]
       /\ loc' = [loc EXCEPT ![j].result = Some(result)]
       /\ db' = save_result(j, result, ok)
       /\ log' = [log EXCEPT ![j] =
                    log[j] \o << <<"begin", "persist">>, <<"end", "persist">> >>]
       /\ hist' = [hist EXCEPT ![j].failed_writes = NoteWrite(j, "result", ok)]
       /\ UNCHANGED <<uuids, returned, last_post, ret, detail, unit>>

\* return result (after the closing prints); run_generation ends.
Return(j) ==
    /\ pc[j] = "return"
    /\ pc' = [pc EXCEPT ![j] = "done"]
    /\ ret' = [ret EXCEPT ![j] = [how |-> "returned", value |-> loc[j].result]]
    /\ loc' = [loc EXCEPT ![j] = NoLocals]
    /\ UNCHANGED <<db, uuids, returned, last_post, log, hist, detail, unit>>

\* except Exception as e: self._save_error(f"Generation failed: {e}"); raise
Except(j, ok) ==
    /\ pc[j] = "except"
    /\ LET error_msg == <<"Generation failed", loc[j].e[1]>> IN
       /\ db' = save_error(j, error_msg, ok)
       /\ hist' = [hist EXCEPT ![j].failed_writes = NoteWrite(j, "error", ok)]
       /\ ret' = [ret EXCEPT ![j] = [how |-> "raised", value |-> loc[j].e]]
       /\ loc' = [loc EXCEPT ![j] = NoLocals]
       /\ pc' = [pc EXCEPT ![j] = "raised"]
       /\ UNCHANGED <<uuids, returned, last_post, log, detail, unit>>

\* The mutant runs the job again after a failure.
RunGenerationExcept_Retry(j) ==
    /\ pc[j] = "raised"
    /\ pc' = [pc EXCEPT ![j] = "update_status"]
    /\ log' = [log EXCEPT ![j] = <<>>]
    /\ UNCHANGED <<db, uuids, returned, last_post, loc, ret, hist, detail, unit>>

\* run_generation: except Exception as e: print(...): the task ends.
RunGenerationExcept(j) ==
    /\ pc[j] = "raised"
    /\ pc' = [pc EXCEPT ![j] = "done"]
    /\ UNCHANGED <<db, uuids, returned, last_post, loc, ret, log, hist, detail, unit>>

\* -------------------------------------------------------------- specification

Next ==
    \/ \E req \in Requests, committed \in BOOLEAN : generate_article(req, committed)
    \/ \E job_id \in PollIds : Poll(job_id)
    \/ \E j \in JobIds : RunGeneration(j)
    \/ \E j \in JobIds, ok \in BOOLEAN : UpdateStatusRunning(j, ok)
    \/ \E j \in JobIds : StepSerp(j)
    \/ \E j \in JobIds, ok \in BOOLEAN : CheckpointSerp(j, ok)
    \/ \E j \in JobIds, out \in JsonOutcomes : StepAnalyze(j, out)
    \/ \E j \in JobIds, out \in JsonOutcomes : StepOutline(j, out)
    \/ \E j \in JobIds, ok \in BOOLEAN : CheckpointOutline(j, ok)
    \/ \E j \in JobIds, oneshot \in OneShotOutcomes, sections \in SectionOutcomes :
          StepContent(j, oneshot, sections)
    \/ \E j \in JobIds, out \in JsonOutcomes : StepMetadata(j, out)
    \/ \E j \in JobIds, out \in JsonOutcomes : StepLinks(j, out)
    \/ \E j \in JobIds, out \in JsonOutcomes : StepReferences(j, out)
    \/ \E j \in JobIds : StepKeywords(j)
    \/ \E j \in JobIds, passed \in BOOLEAN : StepValidate(j, passed)
    \/ \E j \in JobIds, ok \in BOOLEAN : StepPersist(j, ok)
    \/ \E j \in JobIds : Return(j)
    \/ \E j \in JobIds, ok \in BOOLEAN : Except(j, ok)
    \/ \E j \in JobIds : RunGenerationExcept(j)

\* The service with up to MaxJobs jobs, their pipelines interleaved.
Spec == Init /\ [][Next]_vars

\* One job, every agent output recorded by its origin.
SpecRun == InitRun /\ [][Next]_vars

\* ------------------------------------------------------------------- claims

Rows == DOMAIN db

IsPrefix(a, b) == Len(a) <= Len(b) /\ \A i \in 1..Len(a) : a[i] = b[i]

Terminal == {COMPLETED, FAILED}

\* C1: if a step of generate() raises, no later step of the job runs, the job
\* row gets the error message and status FAILED, and the exception is
\* re-raised to the caller: once generate() has raised, the last thing the
\* job did is begin the step that raised, and its row is FAILED with the
\* message built from that exception.
C1_RaiseFailsJob ==
    \A j \in JobIds :
        ret[j].how = "raised" =>
            /\ Len(log[j]) > 0
            /\ log[j][Len(log[j])][1] = "begin"
            /\ j \in Rows
            /\ db[j].status = FAILED
            /\ db[j].error = Some(<<"Generation failed", ret[j].value[1]>>)

\* C2: once a job's status is COMPLETED or FAILED no step changes it again.
C2_TerminalIsFinal ==
    [][\A j \in Rows :
          db[j].status \in Terminal => (j \in DOMAIN db' /\ db'[j].status = db[j].status)]_vars

\* C2 witness: a job has FAILED, its task has ended, and another job's
\* pipeline is still writing.
C2_Witness ==
    \E j \in Rows, k \in Rows :
        /\ j # k
        /\ db[j].status = FAILED /\ pc[j] = "done"
        /\ db[k].status = COMPLETED /\ pc[k] = "done"

\* C3: a job never moves from PENDING directly to COMPLETED: whenever a write
\* makes the status COMPLETED, the status before that write was RUNNING.
C3_CompletedFromRunning ==
    [][\A j \in Rows :
          (db'[j].status = COMPLETED /\ db[j].status # COMPLETED)
              => db[j].status = RUNNING]_vars

\* C4: a job's result is non-empty only if its status is COMPLETED; a FAILED
\* job has no result, and a poll of a FAILED job returns no article.
C4_ResultOnlyWhenCompleted ==
    /\ \A j \in Rows : ~IsNull(db[j].result) => db[j].status = COMPLETED
    /\ \A id \in PollIds :
          get_job_status(id).status = Some("failed") => IsNull(get_job_status(id).result)

\* C4 witness: a FAILED job whose first three steps had succeeded, both
\* checkpoints stored, and no result.
C4_Witness ==
    \E j \in Rows :
        /\ db[j].status = FAILED
        /\ ~IsNull(db[j].serp_data) /\ ~IsNull(db[j].outline_data)
        /\ Len(log[j]) = 7
        /\ IsNull(db[j].result)
        /\ get_job_status(j).status = Some("failed")

\* C5: whenever generate() has returned an ArticleOutput, the job row holds
\* that result, status COMPLETED and a completion timestamp.
C5_ReturnMeansStored ==
    \A j \in JobIds :
        ret[j].how = "returned" =>
            /\ j \in Rows
            /\ db[j].result = ret[j].value
            /\ db[j].status = COMPLETED
            /\ ~IsNull(db[j].completed_at)

\* The order of the steps as the claim gives it, each begun and ended.
C6_Order ==
    << <<"begin", "serp">>, <<"end", "serp">>,
       <<"begin", "analyze">>, <<"end", "analyze">>,
       <<"begin", "outline">>, <<"end", "outline">>,
       <<"begin", "content">>, <<"end", "content">>,
       <<"begin", "metadata">>, <<"end", "metadata">>,
       <<"begin", "links">>, <<"end", "links">>,
       <<"begin", "references">>, <<"end", "references">>,
       <<"begin", "keywords">>, <<"end", "keywords">>,
       <<"begin", "validate">>, <<"end", "validate">>,
       <<"begin", "persist">>, <<"end", "persist">> >>

C7_OwnRowOnly ==
    [][\A j \in JobIds :
          (pc[j] # "none" /\ pc'[j] # pc[j])
              => \A k \in Rows : k # j => (k \in DOMAIN db' /\ db'[k] = db[k])]_vars

\* C7 witness: two pipelines interleaved, each having written its own row.
C7_Witness ==
    \E j \in Rows, k \in Rows :
        /\ j < k
        /\ pc[j] = "content" /\ pc[k] = "analyze"
        /\ db[j].status = RUNNING /\ ~IsNull(db[j].outline_data)
        /\ db[k].status = RUNNING /\ ~IsNull(db[k].serp_data) /\ IsNull(db[k].outline_data)

\* The requests the claim calls invalid.
C8_Invalid(req) ==
    \/ req.target_word_count < 500
    \/ req.target_word_count > 5000
    \/ req.topic_len < 3
    \/ req.topic_len > 200
    \/ ~(Len(req.language) = 2 /\ \A i \in 1..Len(req.language) : req.language[i] \in LowerLetters)

\* C8: a submit whose target_word_count is outside [500, 5000], whose topic
\* has fewer than 3 or more than 200 characters, or whose language is not two
\* lowercase letters is rejected; no job id, row or background task is made.
C8_InvalidRejected ==
    [][\A req \in Requests, committed \in BOOLEAN :
          (C8_Invalid(req) /\ generate_article(req, committed))
              => /\ last_post' = Some([code |-> 422, job_id |-> NULL, status |-> NULL])
                 /\ UNCHANGED <<db, uuids, returned, pc>>]_vars

\* C8 witness: a request was rejected after a job had been accepted, and the
\* table still holds that one job only.
C8_Witness ==
    /\ last_post # NULL
    /\ last_post[1].code = 422
    /\ uuids = 1 /\ Rows = {1} /\ returned = {1}

\* C9: a poll answers 404 exactly for the ids no submit returned; an accepted
\* submit has committed the row with status PENDING when its task is queued
\* and answers "pending"; every returned id polls as one of the four statuses.
C9_PollKnowsReturnedIds ==
    /\ \A id \in PollIds : (get_job_status(id).code = 404) <=> (id \notin returned)
    /\ \A id \in returned :
          /\ get_job_status(id).code = 200
          /\ get_job_status(id).status[1] \in {"pending", "running", "completed", "failed"}
    /\ \A j \in JobIds : pc[j] = "queued" => (j \in Rows /\ db[j].status = PENDING)
    /\ (last_post # NULL /\ last_post[1].code = 202)
          => (last_post[1].status = Some("pending") /\ last_post[1].job_id[1] \in returned)

\* C9 witness: a submit has just been accepted, its task is queued, its id
\* polls as pending, and an id never returned polls as 404.
C9_Witness ==
    /\ last_post # NULL
    /\ last_post[1].code = 202
    /\ last_post[1].job_id = Some(2)
    /\ pc[2] = "queued"
    /\ get_job_status(2).status = Some("pending")
    /\ get_job_status(1).status = Some("running")
    /\ get_job_status(0).code = 404

\* The stored result of a run in which every agent used its fallback.
C10_FallbackResult ==
    [article |-> "sections_template",
     seo_metadata |-> "fallback",
     keyword_analysis |-> "computed",
     internal_links |-> "one_fallback_link",
     external_references |-> "one_fallback_reference",
     serp_analysis |-> "top10"]

\* C10: model failures alone never fail a job: in a run where every model
\* call raised, generate() never reaches its except clause, all ten steps
\* run, and (no job store commit having failed) the job ends COMPLETED with
\* the result assembled from the canned fallbacks.
C10_ModelFailuresAlone ==
    \A j \in JobIds :
        hist[j].model_ok = "no" =>
            /\ pc[j] \notin {"except", "raised"}
            /\ ret[j].how # "raised"
            /\ j \in Rows => db[j].status # FAILED
            /\ (pc[j] = "done" /\ hist[j].failed_writes = {}) =>
                  /\ log[j] = C6_Order
                  /\ ret[j].how = "returned"
                  /\ db[j].status = COMPLETED
                  /\ db[j].result = Some(C10_FallbackResult)

\* C10 witness: a finished run in which every model call raised, COMPLETED
\* with the all-fallback result.
C10_Witness ==
    \E j \in Rows :
        /\ pc[j] = "done"
        /\ hist[j].model_ok = "no"
        /\ db[j].status = COMPLETED
        /\ db[j].result = Some(C10_FallbackResult)

\* ==================================================================== texts
\* The agents below work on Python strings, modelled as TLA+ strings.

\* s[i - 1] in Python terms: the i-th character as a one-character string.
At(s, i) == SubSeq(s, i, i)

\* The whitespace characters that occur in the texts of the model.
Whitespace == {" ", "\n"}

IsSpace(c) == c \in Whitespace

Min(S) == CHOOSE x \in S : \A y \in S : x <= y

Max(S) == CHOOSE x \in S : \A y \in S : x >= y

\* The elements of a finite set of integers in increasing order.
Sorted(S) ==
    [k \in 1..Cardinality(S) |-> CHOOSE x \in S : Cardinality({y \in S : y < x}) = k - 1]

\* str.strip(): without its leading and trailing whitespace.
Strip(s) ==
    LET solid == {i \in 1..Len(s) : ~IsSpace(At(s, i))} IN
    IF solid = {} THEN "" ELSE SubSeq(s, Min(solid), Max(solid))

\* len(s.split()): the number of maximal runs of non-whitespace characters.
WordCount(s) ==
    Cardinality({i \in 1..Len(s) :
                    ~IsSpace(At(s, i)) /\ (i = 1 \/ IsSpace(At(s, i - 1)))})

\* Where a line of s begins: at the first character and after every newline.
LineStarts(s) == {i \in 1..Len(s) : i = 1 \/ At(s, i - 1) = "\n"}

\* The last character of the line that begins at i (i - 1 for an empty line).
LineEnd(s, i) == Min({k \in i..Len(s) : At(s, k) = "\n"} \cup {Len(s) + 1}) - 1

\* ---------------------------------------------------------- markdown parser

\* re.finditer(r'^## (.+?)$', full_article, re.MULTILINE): the starts of the
\* lines that are "## " followed by at least one character ('.' matches no
\* newline, so the heading text ends where its line ends).  The mutant also
\* takes a line that is "## " alone.
H2BareAlso(full_article) ==
    {i \in LineStarts(full_article) :
        /\ LineEnd(full_article, i) >= i + 2
        /\ SubSeq(full_article, i, i + 2) = "## "}

h2_matches(full_article) ==
    {i \in LineStarts(full_article) :
        /\ LineEnd(full_article, i) >= i + 3
        /\ SubSeq(full_article, i, i + 2) = "## "}

\* The section of an outline as the agents read it: section.get("h2", ...),
\* section.get("key_points", []).  NULL is a missing key.
SectionGet(section, key, default) ==
    IF IsNull(section[key]) THEN default ELSE section[key][1]

\* The placeholder that stands for the section of an outline when no heading
\* was found in the article.
placeholder_section(section) ==
    [heading |-> SectionGet(section, "h2", "Section"),
     heading_level |-> 2,
     content |-> "Content parsing failed - article generated but structure unclear.",
     word_count |-> 0]

parse_article_into_sections_OnePlaceholder(full_article, sections_data) ==
    IF h2_matches(full_article) = {} /\ Len(sections_data) > 0
    THEN <<placeholder_section(sections_data[1])>>
    ELSE LET m == Sorted(h2_matches(full_article)) IN
         [idx \in 1..Len(m) |->
            LET match_end == LineEnd(full_article, m[idx])
                end_pos == IF idx + 1 <= Len(m) THEN m[idx + 1] - 1
                           ELSE Len(full_article)
                section_content ==
                    Strip(SubSeq(full_article, match_end + 1, end_pos))
            IN  [heading |-> Strip(SubSeq(full_article, m[idx] + 3, match_end)),
                 heading_level |-> 2,
                 content |-> section_content,
                 word_count |-> WordCount(section_content)]]

\* ContentGenerator._parse_article_into_sections(full_article, sections_data)
parse_article_into_sections(full_article, sections_data) ==
    LET m == Sorted(h2_matches(full_article))
        parsed_sections ==
            [idx \in 1..Len(m) |->
                LET match_end == LineEnd(full_article, m[idx])
                    end_pos == IF idx + 1 <= Len(m) THEN m[idx + 1] - 1
                               ELSE Len(full_article)
                    section_content ==
                        Strip(SubSeq(full_article, match_end + 1, end_pos))
                IN  [heading |-> Strip(SubSeq(full_article, m[idx] + 3, match_end)),
                     heading_level |-> 2,
                     content |-> section_content,
                     word_count |-> WordCount(section_content)]]
    IN  IF Len(m) = 0 /\ Len(sections_data) > 0
        THEN [k \in 1..Len(sections_data) |-> placeholder_section(sections_data[k])]
        ELSE parsed_sections

\* The variables of the service, idle while one agent call is examined.
service_vars == <<db, uuids, returned, last_post, pc, loc, ret, log, hist, detail>>

NoService ==
    /\ db = <<>>
    /\ uuids = 0
    /\ returned = {}
    /\ last_post = NULL
    /\ pc = [j \in JobIds |-> "none"]
    /\ loc = [j \in JobIds |-> NoLocals]
    /\ ret = [j \in JobIds |-> [how |-> "none", value |-> NULL]]
    /\ log = [j \in JobIds |-> <<>>]
    /\ hist = [j \in JobIds |-> [model_ok |-> "no", failed_writes |-> {}]]
    /\ detail = TRUE

\* The longest article the parser is given, in lines.
MaxLines == 3

\* The lines the model's markdown is made of: the title, headings with text,
\* with blanks only and with nothing after "## ", an H3, an indented and a
\* spaceless "##", prose, an empty line.
LineKinds ==
    {"# T", "## Alpha", "## Beta two", "##  ", "## ", "### Sub", " ## In", "##No",
     "One two.", ""}

RECURSIVE TextsOf(_)
TextsOf(n) ==
    IF n = 1 THEN LineKinds
    ELSE {t \o "\n" \o l : t \in TextsOf(n - 1), l \in LineKinds}

\* _generate_full_article_oneshot returns full_article.strip().
ParserTexts == {Strip(t) : t \in UNION {TextsOf(n) : n \in 1..MaxLines}}

\* Outline sections handed to the parser: none, one with an h2, one without.
ParserOutlines ==
    {<<>>,
     <<[h2 |-> Some("Alpha"), key_points |-> NULL]>>,
     <<[h2 |-> NULL, key_points |-> NULL], [h2 |-> Some("Beta two"), key_points |-> NULL]>>}

InitParser ==
    /\ NoService
    /\ unit \in [op : {"parse"}, full_article : ParserTexts,
                 sections_data : ParserOutlines, parsed_sections : {NULL}]

\* parsed_sections = self._parse_article_into_sections(full_article, sections_data)
ParseArticle ==
    /\ unit.op = "parse"
    /\ IsNull(unit.parsed_sections)
    /\ unit' = [unit EXCEPT !.parsed_sections =
                   Some(parse_article_into_sections(unit.full_article, unit.sections_data))]
    /\ UNCHANGED service_vars

NextParser == ParseArticle

\* The markdown parser on its own, over every article of up to MaxLines lines.
SpecParser == InitParser /\ [][NextParser]_vars

\* ------------------------------------------------------------- claim C13

\* The lines of s that begin with "## ".
C13_LinesBeginning(s) ==
    {i \in LineStarts(s) : LineEnd(s, i) >= i + 2 /\ SubSeq(s, i, i + 2) = "## "}

\* The lines of s that are "## " followed by at least one more character.
C13_LinesWithText(s) ==
    {i \in C13_LinesBeginning(s) : LineEnd(s, i) >= i + 3}

\* c is t without leading and trailing whitespace: t is whitespace, c,
\* whitespace, and c neither begins nor ends with whitespace.
C13_IsTrimOf(c, t) ==
    /\ Len(c) > 0 => (~IsSpace(At(c, 1)) /\ ~IsSpace(At(c, Len(c))))
    /\ \E p \in 1..(Len(t) + 1) :
          /\ p + Len(c) - 1 <= Len(t)
          /\ SubSeq(t, p, p + Len(c) - 1) = c
          /\ \A i \in 1..Len(t) : (i < p \/ i >= p + Len(c)) => IsSpace(At(t, i))

\* The sections are the heading lines at starts, in document order, each with
\* the text up to the next heading line (or the end) as its content.
C13_SectionsOf(s, starts, sections) ==
    LET hs == Sorted(starts) IN
    /\ Len(sections) = Len(hs)
    /\ \A k \in 1..Len(hs) :
          LET line_end == LineEnd(s, hs[k])
              until == IF k < Len(hs) THEN hs[k + 1] - 1 ELSE Len(s)
          IN  /\ C13_IsTrimOf(sections[k].heading, SubSeq(s, hs[k] + 3, line_end))
              /\ C13_IsTrimOf(sections[k].content, SubSeq(s, line_end + 1, until))

\* C13 as stated: applied to a text with exactly N >= 1 lines beginning with
\* "## ", the parser returns exactly N sections, in document order, whose
\* contents are the text between the heading lines up to whitespace.
C13_AsStated ==
    (unit # NULL /\ unit.op = "parse" /\ ~IsNull(unit.parsed_sections)
        /\ C13_LinesBeginning(unit.full_article) # {})
    => C13_SectionsOf(unit.full_article, C13_LinesBeginning(unit.full_article),
                      unit.parsed_sections[1])

\* C13, amended: applied to a text with exactly N >= 1 lines that are "## "
\* followed by at least one more character, the parser returns exactly N
\* sections, in document order, each headed by the trimmed rest of its line
\* and holding the trimmed text up to the next such line or the end; a line
\* that is "## " alone is no heading and stays in the preceding content.
C13_ParserRoundTrip ==
    (unit # NULL /\ unit.op = "parse" /\ ~IsNull(unit.parsed_sections)
        /\ C13_LinesWithText(unit.full_article) # {})
    => C13_SectionsOf(unit.full_article, C13_LinesWithText(unit.full_article),
                      unit.parsed_sections[1])

\* C13 witness: a parsed article of two headings with text and, between them,
\* a line that is "## " alone, which ends up in the first section's content.
C13_Witness ==
    /\ unit # NULL /\ unit.op = "parse" /\ ~IsNull(unit.parsed_sections)
    /\ unit.full_article = "## Alpha\n## \n## Beta two"
    /\ Len(unit.parsed_sections[1]) = 2
    /\ unit.parsed_sections[1][1].heading = "Alpha"
    /\ unit.parsed_sections[1][1].content = "##"
    /\ unit.parsed_sections[1][1].word_count = 1
    /\ unit.parsed_sections[1][2].heading = "Beta two"

\* ------------------------------------------------------- content generator

\* A JSON value read from the model's outline or analysis: a string, or a
\* value of another type (a number, an array) with the text an f-string
\* renders it as.
Str(t) == [type |-> "str", text |-> t]

Other(t) == [type |-> "other", text |-> t]

IsStr(v) == v.type = "str"

\* sep.join(list) raises TypeError unless every item is a string.
CanJoin(list) == \A i \in 1..Len(list) : IsStr(list[i])

RECURSIVE Join(_, _)
Join(sep, list) ==
    IF Len(list) = 0 THEN ""
    ELSE IF Len(list) = 1 THEN list[1].text
    ELSE list[1].text \o sep \o Join(sep, Tail(list))

\* list[:n]
Take(list, n) == SubSeq(list, 1, IF Len(list) < n THEN Len(list) ELSE n)

UpperLetters == "ABCDEFGHIJKLMNOPQRSTUVWXYZ"

LowerLetterString == "abcdefghijklmnopqrstuvwxyz"

\* The characters of a string, as a set.
CharsOf(s) == {At(s, i) : i \in 1..Len(s)}

UpperLetterSet == CharsOf(UpperLetters)

\* str.lower() on the capital letters.
LowerOfUpper ==
    [c \in UpperLetterSet |->
        At(LowerLetterString, CHOOSE i \in 1..Len(UpperLetters) : At(UpperLetters, i) = c)]

\* str.lower() on one character.
LowerChar(c) == IF c \in UpperLetterSet THEN LowerOfUpper[c] ELSE c

\* str.lower()
RECURSIVE Lower(_)
Lower(s) ==
    IF s = "" THEN ""
    ELSE IF Len(s) = 1 THEN LowerChar(s)
    ELSE LET half == Len(s) \div 2 IN
         Lower(SubSeq(s, 1, half)) \o Lower(SubSeq(s, half + 1, Len(s)))

\* s.startswith(prefix)
StartsWith(s, prefix) ==
    Len(prefix) <= Len(s) /\ SubSeq(s, 1, Len(prefix)) = prefix

\* n copies of the string c.
RECURSIVE Rep(_, _)
Rep(c, n) ==
    IF n = 0 THEN ""
    ELSE IF n % 2 = 0 THEN LET half == Rep(c, n \div 2) IN half \o half
    ELSE c \o Rep(c, n - 1)

\* The shortest article the one-shot path accepts, in characters after strip().
MinArticleChars == 500

\* The shortest section text the fallback path accepts, after strip().
MinSectionChars == 50

\* The templated paragraph of _generate_section_content's except clause.
\* keywords = [primary_keyword] + secondary_keywords[:2] is never empty.
section_template(h2, key_points, primary_keyword) ==
    "This section would cover " \o Lower(h2)
    \o ". In a production environment, this content would be generated using the LLM service."
    \o "\n\nKey topics to explore include "
    \o (IF Len(key_points) > 0 THEN Join(", ", Take(key_points, 2))
        ELSE "relevant information")
    \o ".\n\nThe content would naturally incorporate keywords like "
    \o primary_keyword.text
    \o " while maintaining readability and providing actionable insights for readers."

\* ContentGenerator._generate_section_content.  reply is what
\* generate_with_retry does: NULL when it raises, otherwise its text.
\* ", ".join(keywords[:3]) is evaluated before the try; the template's
\* ', '.join(key_points[:2]) inside the except clause.
generate_section_content(h2, key_points, primary_keyword, reply) ==
    IF ~IsStr(primary_keyword)
    THEN [raises |-> TRUE, called |-> FALSE, value |-> "TypeError: join"]
    ELSE IF ~IsNull(reply) /\ reply[1] # "" /\ Len(Strip(reply[1])) >= MinSectionChars
    THEN [raises |-> FALSE, called |-> TRUE, value |-> Strip(reply[1])]
    ELSE IF Len(key_points) > 0 /\ ~CanJoin(Take(key_points, 2))
    THEN [raises |-> TRUE, called |-> TRUE, value |-> "TypeError: join"]
    ELSE [raises |-> FALSE, called |-> TRUE,
          value |-> section_template(h2, key_points, primary_keyword)]

\* ContentGenerator._generate_full_article_oneshot.  The prompt is built
\* first: ', '.join(key_points) for every section that has key points and
\* ", ".join([primary_keyword] + secondary_keywords[:3]).
generate_full_article_oneshot(h1, sections_data, primary_keyword, reply) ==
    LET prompt_ok ==
            /\ \A k \in 1..Len(sections_data) :
                  CanJoin(SectionGet(sections_data[k], "key_points", <<>>))
            /\ IsStr(primary_keyword)
        titled == IF StartsWith(Strip(reply[1]), "# " \o h1.text) THEN reply[1]
                  ELSE "# " \o h1.text \o "\n\n" \o reply[1]
    IN  IF ~prompt_ok
        THEN [raises |-> TRUE, called |-> FALSE, value |-> "TypeError: join"]
        ELSE IF IsNull(reply)
        THEN [raises |-> TRUE, called |-> TRUE, value |-> "model call failed"]
        ELSE IF reply[1] = "" \/ Len(Strip(reply[1])) < MinArticleChars
        THEN [raises |-> TRUE, called |-> TRUE, value |-> "ValueError: too short"]
        ELSE [raises |-> FALSE, called |-> TRUE, value |-> Strip(titled)]

\* ArticleContent(h1=..., ...): pydantic rejects an h1 that is not a string.
ArticleContent(h1, sections, full_text, word_count) ==
    IF IsStr(h1)
    THEN [raises |-> FALSE,
          value |-> [h1 |-> h1.text, sections |-> sections,
                     full_text |-> full_text, word_count |-> word_count]]
    ELSE [raises |-> TRUE, value |-> "ValidationError: h1"]

\* The outline's h1: a string, or (the model's JSON is not validated) an array.
ContentH1s == {Str("Guide"), Other("['Guide']")}

\* serp_analysis.get("primary_keyword", ""): a string, or a JSON number.
ContentKeywords == {Str("seo"), Other("2024")}

\* Outlines of no, one and two sections; key_points missing, strings, or
\* holding a JSON number.
ContentOutlines ==
    LET alpha == [h2 |-> Some("Alpha"),
                  key_points |-> Some(<<Str("first"), Str("second"), Str("third")>>)]
        beta == [h2 |-> Some("Beta Two"), key_points |-> NULL]
        gamma == [h2 |-> Some("Gamma"), key_points |-> Some(<<Str("first"), Other("7")>>)]
    IN  {<<>>, <<alpha>>, <<alpha, beta>>, <<beta, gamma>>}

\* What the one-shot model call returns: an empty text, texts of 499 and 500
\* characters, a text of 499 characters inside whitespace, an article that
\* begins with its title.
OneShotTexts ==
    {"",
     "## Alpha\n" \o Rep("a", MinArticleChars - 10),
     "## Alpha\n" \o Rep("a", MinArticleChars - 9),
     "  ## Alpha\n" \o Rep("a", MinArticleChars - 10) \o "\n",
     "# Guide\n\n## Alpha\nOne two.\n\n## Beta Two\n" \o Rep("a", MinArticleChars)}

\* generate_with_retry: NULL when it raises after its retries.
OneShotReplies == {NULL} \cup {Some(t) : t \in OneShotTexts}

\* What a per-section model call returns: nothing, 49 characters, 49
\* characters inside whitespace, 50 characters in three words.
SectionTexts ==
    {"",
     Rep("b", MinSectionChars - 1),
     "  " \o Rep("b", MinSectionChars - 1) \o "\n",
     "c c " \o Rep("c", MinSectionChars - 4)}

SectionReplies == {NULL} \cup {Some(t) : t \in SectionTexts}

\* generate_article(outline, serp_analysis) at its try statement.
ContentFrame(h1, sections_data, primary_keyword) ==
    [op |-> "generate", pc |-> "oneshot",
     h1 |-> h1, sections_data |-> sections_data, primary_keyword |-> primary_keyword,
     oneshot |-> "none", oneshot_reply |-> NULL, fallback |-> FALSE,
     section_calls |-> <<>>, generated_sections |-> <<>>,
     full_text |-> "", total_words |-> 0, result |-> NULL, exc |-> NULL]

InitContent ==
    /\ NoService
    /\ unit \in {ContentFrame(h1, sections_data, primary_keyword) :
                    h1 \in ContentH1s, sections_data \in ContentOutlines,
                    primary_keyword \in ContentKeywords}

\* History: how a model call ended.
ReplyKind(reply, least) ==
    IF IsNull(reply) THEN "raised"
    ELSE IF reply[1] = "" \/ Len(Strip(reply[1])) < least THEN "short"
    ELSE "ok"

\* generate_article, the try block: the one-shot call, the parse, the word
\* count, ArticleContent(...); any exception enters the fallback, whose
\* first statements set generated_sections, full_text and total_words.
GenerateOneShot(reply) ==
    /\ unit.op = "generate"
    /\ unit.pc = "oneshot"
    /\ LET r == generate_full_article_oneshot(unit.h1, unit.sections_data,
                                              unit.primary_keyword, reply)
           a == ArticleContent(unit.h1,
                               parse_article_into_sections(r.value, unit.sections_data),
                               r.value, WordCount(r.value))
           noted == [unit EXCEPT
                       !.oneshot = IF r.called THEN ReplyKind(reply, MinArticleChars)
                                   ELSE "not_called",
                       !.oneshot_reply = IF r.called THEN reply ELSE NULL]
       IN  IF ~r.raises /\ ~a.raises
           THEN unit' = [noted EXCEPT !.pc = "returned", !.result = Some(a.value)]
           ELSE unit' = [noted EXCEPT !.pc = "fallback", !.fallback = TRUE,
                                      !.full_text = "# " \o unit.h1.text \o "\n\n"]
    /\ UNCHANGED service_vars

\* _generate_article_fallback, one turn of its loop.
FallbackSection(reply) ==
    /\ unit.op = "generate"
    /\ unit.pc = "fallback"
    /\ Len(unit.generated_sections) < Len(unit.sections_data)
    /\ LET section == unit.sections_data[Len(unit.generated_sections) + 1]
           h2 == SectionGet(section, "h2", "")
           key_points == SectionGet(section, "key_points", <<>>)
           r == generate_section_content(h2, key_points, unit.primary_keyword, reply)
           called == [unit EXCEPT
                        !.section_calls =
                            IF r.called
                            THEN Append(unit.section_calls, reply)
                            ELSE unit.section_calls]
           article_section == [heading |-> h2, heading_level |-> 2,
                               content |-> r.value, word_count |-> WordCount(r.value)]
       IN  IF r.raises
           THEN unit' = [called EXCEPT !.pc = "raised", !.exc = Some(r.value)]
           ELSE unit' = [called EXCEPT
                           !.generated_sections = Append(unit.generated_sections, article_section),
                           !.full_text = unit.full_text \o "## " \o h2 \o "\n\n"
                                         \o r.value \o "\n\n",
                           !.total_words = unit.total_words + article_section.word_count]
    /\ UNCHANGED service_vars

\* _generate_article_fallback, after the loop: return ArticleContent(...)
FallbackReturn ==
    /\ unit.op = "generate"
    /\ unit.pc = "fallback"
    /\ Len(unit.generated_sections) = Len(unit.sections_data)
    /\ LET a == ArticleContent(unit.h1, unit.generated_sections, unit.full_text,
                               unit.total_words)
       IN  IF a.raises
           THEN unit' = [unit EXCEPT !.pc = "raised", !.exc = Some(a.value)]
           ELSE unit' = [unit EXCEPT !.pc = "returned", !.result = Some(a.value)]
    /\ UNCHANGED service_vars

NextContent ==
    \/ \E reply \in OneShotReplies : GenerateOneShot(reply)
    \/ \E reply \in SectionReplies : FallbackSection(reply)
    \/ FallbackReturn

\* ContentGenerator.generate_article on its own, over outlines, analyses and
\* model replies.
SpecContent == InitContent /\ [][NextContent]_vars

\* ------------------------------------------------------ claims C11, C12, C14

\* C11: content generation enters the per-section fallback only when the
\* one-shot call failed after its retries or returned fewer than 500
\* characters after trimming; when the one-shot call returned at least 500
\* characters the fallback is never entered and no per-section call is made.
C11_FallbackOnlyAfterFailure ==
    (unit # NULL /\ unit.op = "generate") =>
        /\ unit.fallback => unit.oneshot \in {"raised", "short"}
        /\ unit.oneshot = "ok" => (~unit.fallback /\ unit.section_calls = <<>>)

\* The content the fallback path gives section k: the model's text trimmed
\* when the call returned at least 50 characters, the template otherwise.
C12_ContentOf(k) ==
    LET section == unit.sections_data[k]
        reply == unit.section_calls[k]
    IN  IF ReplyKind(reply, 50) = "ok" THEN Strip(reply[1])
        ELSE section_template(SectionGet(section, "h2", ""),
                              SectionGet(section, "key_points", <<>>),
                              unit.primary_keyword)

\* C12: the fallback path never aborts and always returns an article, with
\* exactly one section per outline section, in outline order, each headed by
\* that section's h2, holding the model's text or, when the per-section call
\* failed or returned fewer than 50 characters, the templated paragraph.
C12_FallbackAlwaysReturns ==
    (unit # NULL /\ unit.op = "generate" /\ unit.fallback) =>
        /\ unit.pc # "raised"
        /\ unit.pc = "returned" =>
              LET sections == unit.result[1].sections IN
              /\ Len(sections) = Len(unit.sections_data)
              /\ Len(unit.section_calls) = Len(unit.sections_data)
              /\ \A k \in 1..Len(sections) :
                    /\ sections[k].heading = SectionGet(unit.sections_data[k], "h2", "")
                    /\ sections[k].content = C12_ContentOf(k)

\* C14: for every ArticleContent that generate_article returns, on the
\* one-shot path and on the fallback path alike, word_count equals the
\* whitespace-token count of full_text.
C14_WordCountIsTokenCount ==
    (unit # NULL /\ unit.op = "generate" /\ unit.pc = "returned") =>
        unit.result[1].word_count = WordCount(unit.result[1].full_text)

\* ======================================================= quality validator

Digits == "0123456789"

WordChars == CharsOf(LowerLetterString \o UpperLetters \o Digits \o "_")

\* \w of the re module, over the characters of the model.
IsWordChar(c) == c \in WordChars

\* str(n) for an integer n.
RECURSIVE IntToStr(_)
IntToStr(n) ==
    IF n < 0 THEN "-" \o IntToStr(0 - n)
    ELSE IF n < 10 THEN At(Digits, n + 1)
    ELSE IntToStr(n \div 10) \o At(Digits, (n % 10) + 1)

\* 10 ** n
RECURSIVE Pow10(_)
Pow10(n) == IF n = 0 THEN 1 ELSE 10 * Pow10(n - 1)

\* f"{num / den:.{places}f}" for num >= 0, den > 0: the quotient rounded to
\* places decimals (half to even), digits taken from the exact quotient.
Fixed(num, den, places) ==
    LET scaled == num * Pow10(places)
        q == scaled \div den
        r == scaled % den
        rounded == IF 2 * r > den \/ (2 * r = den /\ q % 2 = 1) THEN q + 1 ELSE q
        frac == IntToStr(rounded % Pow10(places))
    IN  IntToStr(rounded \div Pow10(places)) \o "."
        \o Rep("0", places - Len(frac)) \o frac

\* \b at position p of t: between t[p-1] and t[p] exactly one is a word
\* character (outside the string counts as none).
WordBoundary(t, p) ==
    LET before == p > 1 /\ p - 1 <= Len(t) /\ IsWordChar(At(t, p - 1))
        after == p >= 1 /\ p <= Len(t) /\ IsWordChar(At(t, p))
    IN  before # after

\* keyword_pattern = r'\b' + re.escape(keyword) + r'\b' matches t at i.
KeywordMatchAt(keyword, t, i) ==
    /\ i + Len(keyword) - 1 <= Len(t)
    /\ SubSeq(t, i, i + Len(keyword) - 1) = keyword
    /\ WordBoundary(t, i)
    /\ WordBoundary(t, i + Len(keyword))

\* re.search(keyword_pattern, t)
KeywordSearch(keyword, t) ==
    \E i \in 1..(Len(t) + 1) : KeywordMatchAt(keyword, t, i)

\* len(re.findall(keyword_pattern, t)): the matches from left to right, each
\* search resuming where the last match ended (one further after an empty
\* match).
RECURSIVE KeywordCountFrom(_, _, _)
KeywordCountFrom(keyword, t, from) ==
    LET hits == {i \in from..(Len(t) + 1) : KeywordMatchAt(keyword, t, i)} IN
    IF hits = {} THEN 0
    ELSE 1 + KeywordCountFrom(keyword, t,
                              Min(hits) + (IF Len(keyword) = 0 THEN 1 ELSE Len(keyword)))

\* ' '.join(s.split()[:n]): the first n whitespace-separated tokens, joined
\* by single spaces.  The text is cut after its n-th token, and of every run
\* of whitespace inside it one space is kept.
FirstWords(s, n) ==
    LET first == {i \in 1..Len(s) : ~IsSpace(At(s, i))}
        starts == {i \in first : i = 1 \/ IsSpace(At(s, i - 1))}
        ends == {i \in first : i = Len(s) \/ IsSpace(At(s, i + 1))}
        kept_ends == {e \in ends : Cardinality({i \in starts : i <= e}) <= n}
        RECURSIVE squeezed(_, _)
        squeezed(lo, hi) ==
            IF lo > hi THEN ""
            ELSE IF lo = hi
                 THEN IF ~IsSpace(At(s, lo)) THEN At(s, lo)
                      ELSE IF IsSpace(At(s, lo - 1)) THEN "" ELSE " "
            ELSE LET mid == (lo + hi) \div 2 IN
                 squeezed(lo, mid) \o squeezed(mid + 1, hi)
    IN  IF kept_ends = {} THEN ""
        ELSE squeezed(Min(first), Max(kept_ends))

\* len(re.findall(r'[.!?](?=\s+[A-Z]|\s*$)', t)): a '.', '!' or '?' followed
\* by whitespace and a capital letter, or by nothing but whitespace.
SentenceCount(t) ==
    Cardinality({i \in 1..Len(t) :
        /\ At(t, i) \in {".", "!", "?"}
        /\ \/ \A k \in (i + 1)..Len(t) : IsSpace(At(t, k))
           \/ \E k \in (i + 2)..Len(t) :
                 /\ At(t, k) \in UpperLetterSet
                 /\ \A w \in (i + 1)..(k - 1) : IsSpace(At(t, w))})

\* The eight criteria of validate_seo_quality, in the order of the code. Each
\* gives the points its "score +=" adds and the issues it appends.

Awarded(n) == [points |-> n, issues |-> <<>>]

Missed(n, issue) == [points |-> n, issues |-> <<issue>>]

criterion_title_tag_FiftySixty(metadata) ==
    LET title_len == Len(metadata.title_tag) IN
    IF 50 <= title_len /\ title_len <= 60 THEN Awarded(10)
    ELSE Missed(0, "Title tag should be 40-65 chars (current: "
                   \o IntToStr(title_len) \o ")")

\* 1. Title tag length (10 points)
criterion_title_tag(metadata) ==
    LET title_len == Len(metadata.title_tag) IN
    IF 40 <= title_len /\ title_len <= 65 THEN Awarded(10)
    ELSE Missed(0, "Title tag should be 40-65 chars (current: "
                   \o IntToStr(title_len) \o ")")

criterion_meta_description_NoPartial(metadata) ==
    LET desc_len == Len(metadata.meta_description) IN
    IF 145 <= desc_len /\ desc_len <= 165 THEN Awarded(10)
    ELSE Missed(0, "Meta description should be 145-165 chars (current: "
                   \o IntToStr(desc_len) \o ")")

\* 2. Meta description length (10 points, 5 when nearly ideal)
criterion_meta_description(metadata) ==
    LET desc_len == Len(metadata.meta_description) IN
    IF 145 <= desc_len /\ desc_len <= 165 THEN Awarded(10)
    ELSE IF 140 <= desc_len /\ desc_len <= 170
    THEN Missed(5, "Meta description nearly ideal (current: "
                   \o IntToStr(desc_len) \o " chars, target: 145-165)")
    ELSE Missed(0, "Meta description should be 145-165 chars (current: "
                   \o IntToStr(desc_len) \o ")")

\* 3. Primary keyword in H1 (15 points)
criterion_keyword_in_h1(article, metadata) ==
    IF KeywordSearch(Lower(metadata.focus_keyword), Lower(article.h1))
    THEN Awarded(15)
    ELSE Missed(0, "Primary keyword not found in H1")

\* 4. Primary keyword in the first 100 words (15 points)
criterion_keyword_in_first_100(article, metadata) ==
    LET first_100 == FirstWords(article.full_text, 100) IN
    IF KeywordSearch(Lower(metadata.focus_keyword), Lower(first_100))
    THEN Awarded(15)
    ELSE Missed(0, "Primary keyword not in first 100 words")

criterion_word_count_Penalty(article, target_word_count) ==
    LET diff == article.word_count - target_word_count
        word_diff == IF diff < 0 THEN 0 - diff ELSE diff
    IN
    IF 10 * word_diff <= 3 * target_word_count THEN Awarded(10)
    ELSE Missed(0 - 10, "Word count significantly off target by " \o IntToStr(word_diff)
                   \o " words (target: " \o IntToStr(target_word_count)
                   \o ", actual: " \o IntToStr(article.word_count) \o ")")

\* 5. Word count within 30% of the target (10 points): word_diff <=
\* target_word_count * 0.3, compared exactly.
criterion_word_count(article, target_word_count) ==
    LET diff == article.word_count - target_word_count
        word_diff == IF diff < 0 THEN 0 - diff ELSE diff
    IN
    IF 10 * word_diff <= 3 * target_word_count THEN Awarded(10)
    ELSE Missed(0, "Word count significantly off target by " \o IntToStr(word_diff)
                   \o " words (target: " \o IntToStr(target_word_count)
                   \o ", actual: " \o IntToStr(article.word_count) \o ")")

criterion_sections_AtLeastThree(article) ==
    IF Len(article.sections) >= 3 THEN Awarded(15)
    ELSE Missed(0, "Should have at least 4 H2 sections (has "
                   \o IntToStr(Len(article.sections)) \o ")")

\* 6. At least four sections (15 points)
criterion_sections(article) ==
    IF Len(article.sections) >= 4 THEN Awarded(15)
    ELSE Missed(0, "Should have at least 4 H2 sections (has "
                   \o IntToStr(Len(article.sections)) \o ")")

\* 7. Keyword density (10 points): density = keyword_count / word_count *
\* 100, at least 1.0 (0.1 for a keyword of five words or more) and at most
\* 2.5, compared exactly.
criterion_keyword_density(article, metadata) ==
    LET keyword_count == KeywordCountFrom(Lower(metadata.focus_keyword),
                                          Lower(article.full_text), 1)
        long_tail == WordCount(metadata.focus_keyword) >= 5
        density_label == IF long_tail THEN "0.1-2.5%" ELSE "1.0-2.5%"
        at_least_min ==
            /\ article.word_count > 0
            /\ IF long_tail THEN 1000 * keyword_count >= article.word_count
                            ELSE 100 * keyword_count >= article.word_count
        at_most_max ==
            article.word_count > 0 => 40 * keyword_count <= article.word_count
        shown == IF article.word_count > 0
                 THEN Fixed(100 * keyword_count, article.word_count, 2)
                 ELSE "0.00"
    IN
    IF at_least_min /\ at_most_max THEN Awarded(10)
    ELSE Missed(0, "Keyword density should be " \o density_label
                   \o " (current: " \o shown \o "%)")

\* 8. Readability (15 points): average sentence length between 12 and 20
\* words, for word_count >= 0.
criterion_readability(article) ==
    LET found == SentenceCount(article.full_text)
        estimate == article.word_count \div 15
        sentence_count == IF found # 0 THEN found
                          ELSE IF estimate > 1 THEN estimate ELSE 1
    IN
    IF /\ 12 * sentence_count <= article.word_count
       /\ article.word_count <= 20 * sentence_count
    THEN Awarded(15)
    ELSE Missed(0, "Average sentence length: "
                   \o Fixed(article.word_count, sentence_count, 1)
                   \o " words (ideal: 12-20 words)")

criteria(article, metadata, target_word_count) ==
    << criterion_title_tag(metadata),
       criterion_meta_description(metadata),
       criterion_keyword_in_h1(article, metadata),
       criterion_keyword_in_first_100(article, metadata),
       criterion_word_count(article, target_word_count),
       criterion_sections(article),
       criterion_keyword_density(article, metadata),
       criterion_readability(article) >>

MaxScore == 100

PassingScore == 70

\* The return value of validate_seo_quality once the criteria c have been
\* gone through: score and issues accumulate in the order of the code;
\* percentage is round((score / max_score) * 100, 1).
quality_report(c) ==
    LET score[k \in 0..Len(c)] ==
            IF k = 0 THEN 0 ELSE score[k - 1] + c[k].points
        issues[k \in 0..Len(c)] ==
            IF k = 0 THEN <<>> ELSE issues[k - 1] \o c[k].issues
    IN  [score |-> score[Len(c)],
         max_score |-> MaxScore,
         percentage |-> (score[Len(c)] * 100) \div MaxScore,
         issues |-> issues[Len(c)],
         passed |-> score[Len(c)] >= PassingScore]

\* QualityValidator.validate_seo_quality
validate_seo_quality(article, metadata, target_word_count) ==
    quality_report(criteria(article, metadata, target_word_count))

\* ------------------------------------------- the validator, call by call

MaxCalls == 2

\* Lengths on both sides of each limit of criteria 1 and 2.
TitleTags == {Rep("t", n) : n \in {39, 40, 65, 66}}

MetaDescriptions == {Rep("d", n) : n \in {139, 140, 144, 145, 165, 166, 170, 171}}

FocusKeywords == {"seo", "c++", "best seo tips for teams"}

ValidatorH1s == {"Great SEO Tips", "Seotips Guide", "Learn C++ Today"}

ValidatorTexts ==
    { Rep("Seo. ", 5) \o Rep("Go on. ", 20),
      "Great seo tips start here. Learn c++ today! Best seo tips for teams.",
      Rep("w ", 100) \o "seo tips and c++.",
      "" }

ValidatorWordCounts == {0, 100, 400, 651}

ValidatorTarget == 500

ValidatorSection(k) ==
    [heading |-> "Part " \o IntToStr(k), heading_level |-> 2,
     content |-> "Body.", word_count |-> 1]

ValidatorSections == {[k \in 1..n |-> ValidatorSection(k)] : n \in {3, 4}}

ValidatorFrame(article, metadata, target_word_count) ==
    [op |-> "validate", article |-> article, metadata |-> metadata,
     target_word_count |-> target_word_count, calls |-> <<>>]

InitValidator ==
    /\ NoService
    /\ \E h1 \in ValidatorH1s, sections \in ValidatorSections,
          full_text \in ValidatorTexts, word_count \in ValidatorWordCounts,
          title_tag \in TitleTags, meta_description \in MetaDescriptions,
          focus_keyword \in FocusKeywords :
          unit = ValidatorFrame(
                     [h1 |-> h1, sections |-> sections,
                      full_text |-> full_text, word_count |-> word_count],
                     [title_tag |-> title_tag,
                      meta_description |-> meta_description,
                      focus_keyword |-> focus_keyword],
                     ValidatorTarget)

\* The points each criterion added during one call, next to what the call
\* returned.
ValidatorCall(article, metadata, target_word_count) ==
    LET c == criteria(article, metadata, target_word_count) IN
    [report |-> quality_report(c),
     earned |-> [k \in 1..Len(c) |-> c[k].points]]

Validate_Consuming ==
    /\ unit # NULL
    /\ unit.op = "validate"
    /\ Len(unit.calls) < MaxCalls
    /\ unit' = [unit EXCEPT
                  !.calls = Append(@, ValidatorCall(unit.article, unit.metadata,
                                                    unit.target_word_count)),
                  !.article.full_text = Lower(@),
                  !.article.h1 = Lower(@)]
    /\ UNCHANGED service_vars

\* One call of validate_seo_quality on the frame's article and metadata.
Validate ==
    /\ unit # NULL
    /\ unit.op = "validate"
    /\ Len(unit.calls) < MaxCalls
    /\ unit' = [unit EXCEPT
                  !.calls = Append(@, ValidatorCall(unit.article, unit.metadata,
                                                    unit.target_word_count))]
    /\ UNCHANGED service_vars

NextValidator == Validate

SpecValidator == InitValidator /\ [][NextValidator]_vars

\* ---------------------------------------------------------------- claims

ValidateCalls == IF unit # NULL /\ unit.op = "validate" THEN unit.calls ELSE <<>>

RECURSIVE SumTo(_, _)
SumTo(f, n) == IF n = 0 THEN 0 ELSE f[n] + SumTo(f, n - 1)

\* The points a criterion can add: all of its weight or none, and for the
\* meta description also half.
C15_Weights == <<{0, 10}, {0, 5, 10}, {0, 15}, {0, 15}, {0, 10}, {0, 15}, {0, 10}, {0, 15}>>

\* C15: the score a call of validate_seo_quality returns is an integer from
\* 0 to 100, equal to the sum of the points of the eight criteria (10, 10 or
\* 5, 15, 15, 10, 15, 10, 15), and no criterion adds a negative number.
C15_ScoreIsSumOfCriteria ==
    \A n \in 1..Len(ValidateCalls) :
        LET call == ValidateCalls[n] IN
        /\ call.report.score \in 0..100
        /\ Len(call.earned) = 8
        /\ call.report.score = SumTo(call.earned, 8)
        /\ \A k \in 1..8 : call.earned[k] \in C15_Weights[k]

\* A call in which some criteria earned their points and others none, the
\* meta description half of its own.
C15_Witness ==
    \E n \in 1..Len(ValidateCalls) :
        LET call == ValidateCalls[n] IN
        /\ call.earned[2] = 5
        /\ call.earned[5] = 0
        /\ call.earned[6] = 15
        /\ call.report.score = 45

Contains(hay, needle) ==
    \E i \in 1..(Len(hay) - Len(needle) + 1) :
        SubSeq(hay, i, i + Len(needle) - 1) = needle

\* word occurs in text as a whole word, letter case aside: an occurrence
\* with the start of the text or a character that is no letter, digit or
\* underscore before it, and the end of the text or such a character after it.
OccursAsWholeWord(word, text) ==
    \E i \in 1..(Len(text) - Len(word) + 1) :
        /\ Lower(SubSeq(text, i, i + Len(word) - 1)) = Lower(word)
        /\ i = 1 \/ ~IsWordChar(At(text, i - 1))
        /\ i + Len(word) > Len(text) \/ ~IsWordChar(At(text, i + Len(word)))

\* C17: whenever focus_keyword occurs in the h1 as a whole word, letter case
\* aside, criterion 3 awards its 15 points and no issue about the H1 is
\* reported.
C17_KeywordInH1Awarded ==
    \A n \in 1..Len(ValidateCalls) :
        OccursAsWholeWord(unit.metadata.focus_keyword, unit.article.h1) =>
            /\ ValidateCalls[n].earned[3] = 15
            /\ \A k \in 1..Len(ValidateCalls[n].report.issues) :
                   ~Contains(ValidateCalls[n].report.issues[k], "H1")

\* The issues of a report that match a word, letter case aside.
IssuesMatching(report, word) ==
    {k \in 1..Len(report.issues) : Contains(Lower(report.issues[k]), word)}

C20_FullPoints == <<10, 10, 15, 15, 10, 15, 10, 15>>

RECURSIVE StrCountFrom(_, _, _)
StrCountFrom(s, sub, from) ==
    LET hits == {i \in from..(Len(s) - Len(sub) + 1) :
                    SubSeq(s, i, i + Len(sub) - 1) = sub} IN
    IF hits = {} THEN 0
    ELSE 1 + StrCountFrom(s, sub,
                          Min(hits) + (IF Len(sub) = 0 THEN 1 ELSE Len(sub)))

\* round(num / den * 100, 2) in hundredths, for num >= 0 and den > 0: the
\* hundredth nearest to the quotient, the even one of two equally near.
RoundedPercent(num, den) ==
    LET scaled == num * 10000
        q == scaled \div den
        r == scaled % den
    IN  IF 2 * r > den \/ (2 * r = den /\ q % 2 = 1) THEN q + 1 ELSE q

analyze_keywords_CaseSensitive(article_content, primary_keyword, secondary_keywords) ==
    LET primary_count == StrCountFrom(article_content, primary_keyword, 1)
        total_words == WordCount(article_content)
    IN  [primary_keyword |-> primary_keyword,
         secondary_keywords |-> secondary_keywords,
         keyword_density |-> IF total_words > 0
                             THEN RoundedPercent(primary_count, total_words)
                             ELSE 0]

\* SEOMetadataGenerator.analyze_keywords; keyword_density is held in
\* hundredths of a percent point (167 for 1.67).
analyze_keywords(article_content, primary_keyword, secondary_keywords) ==
    LET content_lower == Lower(article_content)
        primary_count == StrCountFrom(content_lower, Lower(primary_keyword), 1)
        total_words == WordCount(article_content)
    IN  [primary_keyword |-> primary_keyword,
         secondary_keywords |-> secondary_keywords,
         keyword_density |-> IF total_words > 0
                             THEN RoundedPercent(primary_count, total_words)
                             ELSE 0]

MaxWords == 3

KeywordWords == {"seo", "SEO", "seoseo", "aaa", "tips"}

RECURSIVE WordTextsOf(_)
WordTextsOf(n) ==
    IF n = 0 THEN {""}
    ELSE IF n = 1 THEN KeywordWords
    ELSE {t \o " " \o w : t \in WordTextsOf(n - 1), w \in KeywordWords}

\* Articles of at most MaxWords words; below 32 words no quotient lies midway
\* between two hundredths.
KeywordTexts == UNION {WordTextsOf(n) : n \in 0..MaxWords} \cup {" \n", "seo\n\nSeo  tips\n"}

PrimaryKeywords == {"seo", "Seo Tips", "aa", "x", " "}

InitKeywords ==
    /\ NoService
    /\ \E article_content \in KeywordTexts, primary_keyword \in PrimaryKeywords :
          unit = [op |-> "analyze_keywords",
                  article_content |-> article_content,
                  primary_keyword |-> primary_keyword,
                  secondary_keywords |-> <<"tips">>,
                  result |-> NULL]

\* One call of analyze_keywords on the frame's arguments.
AnalyzeKeywords ==
    /\ unit # NULL
    /\ unit.op = "analyze_keywords"
    /\ unit.result = NULL
    /\ unit' = [unit EXCEPT !.result =
                   Some(analyze_keywords(unit.article_content, unit.primary_keyword,
                                         unit.secondary_keywords))]
    /\ UNCHANGED service_vars

NextKeywords == AnalyzeKeywords

SpecKeywords == InitKeywords /\ [][NextKeywords]_vars

\* ---------------------------------------------------------------- claims

KeywordsDone == unit # NULL /\ unit.op = "analyze_keywords" /\ unit.result # NULL

\* Where keyword occurs in text, letter case aside.
C21_Positions(text, keyword) ==
    {i \in 1..(Len(text) - Len(keyword) + 1) :
        Lower(SubSeq(text, i, i + Len(keyword) - 1)) = Lower(keyword)}

\* The occurrences of keyword in text: the most of them that can be taken
\* without two sharing a character.
C21_Occurrences(text, keyword) ==
    Max({Cardinality(P) : P \in {Q \in SUBSET C21_Positions(text, keyword) :
            \A i, j \in Q : i < j => i + Len(keyword) <= j}})

\* C21: the keyword_density analyze_keywords reports is 100 times the number
\* of occurrences of primary_keyword in the text, letter case aside, divided
\* by the number of whitespace-separated tokens of the text, to the nearest
\* hundredth; it is 0 when the keyword does not occur or the text has no
\* token.
C21_DensityFormula ==
    KeywordsDone =>
        LET occurrences == C21_Occurrences(unit.article_content, unit.primary_keyword)
            tokens == WordCount(unit.article_content)
            density == unit.result[1].keyword_density
            off == 10000 * occurrences - density * tokens
        IN  /\ (occurrences = 0 \/ tokens = 0) => density = 0
            /\ tokens > 0 => (2 * off <= tokens /\ 0 - 2 * off <= tokens)

\* A call on a text in which the keyword occurs in another letter case, with
\* a density that had to be rounded: one occurrence in three words, 33.33.
C21_Witness ==
    /\ KeywordsDone
    /\ unit.article_content = "tips SEO aaa"
    /\ unit.primary_keyword = "seo"
    /\ unit.result[1].keyword_density = 3333

\* ======================================================= outline generator

LetterSet == UpperLetterSet \cup CharsOf(LowerLetterString)

\* str.upper() on one character.
UpperChar(c) ==
    IF c \in CharsOf(LowerLetterString)
    THEN At(UpperLetters,
            CHOOSE i \in 1..Len(LowerLetterString) : At(LowerLetterString, i) = c)
    ELSE c

\* str.title(): a letter that follows no letter is made upper case, every
\* other letter lower case.
Title(s) ==
    LET RECURSIVE titled(_, _)
        titled(lo, hi) ==
            IF lo > hi THEN ""
            ELSE IF lo = hi
                 THEN IF lo > 1 /\ At(s, lo - 1) \in LetterSet
                      THEN LowerChar(At(s, lo))
                      ELSE UpperChar(At(s, lo))
            ELSE LET mid == (lo + hi) \div 2 IN
                 titled(lo, mid) \o titled(mid + 1, hi)
    IN  titled(1, Len(s))

\* The sections of the fallback outline, with the given word counts.
fallback_sections(topic, counts) ==
    << [h2 |-> "Introduction", h3s |-> <<>>, word_count |-> counts[1],
        key_points |-> <<"Define " \o topic, "Explain importance", "Overview of article">>],
       [h2 |-> "Understanding " \o Title(topic),
        h3s |-> <<"Key Concepts", "Common Terminology">>, word_count |-> counts[2],
        key_points |-> <<"Explain fundamentals", "Provide context", "Share examples">>],
       [h2 |-> "Benefits of " \o Title(topic), h3s |-> <<>>, word_count |-> counts[3],
        key_points |-> <<"List main benefits", "Provide evidence", "Share statistics">>],
       [h2 |-> "Best Practices for " \o Title(topic),
        h3s |-> <<"Getting Started", "Advanced Tips">>, word_count |-> counts[4],
        key_points |-> <<"Step-by-step guidance", "Expert recommendations", "Common pitfalls">>],
       [h2 |-> "Conclusion", h3s |-> <<>>, word_count |-> counts[5],
        key_points |-> <<"Summarize key takeaways", "Encourage action", "Future outlook">>] >>

FallbackWordCounts == <<200, 300, 250, 400, 150>>

\* generate_outline, the except clause: the outline returned in place of the
\* model's.
fallback_outline(topic) ==
    [h1 |-> "The Complete Guide to " \o Title(topic),
     sections |-> fallback_sections(topic, FallbackWordCounts)]

\* The lists of the analysis that the prompt joins with ', '.
JoinedFields == {"common_topics", "subtopics", "recommended_h2_headings", "secondary_keywords"}

\* What generate_json gives generate_outline: an exception (error), or
\* parsed JSON (h1, sections): an outline, an outline whose word counts are
\* strings of digits, or an array around the h1.
OutlineReplies ==
    {[kind |-> "raise", error |-> "LLM call failed", h1 |-> "", sections |-> <<>>],
     [kind |-> "raise", error |-> "JSONDecodeError", h1 |-> "", sections |-> <<>>],
     [kind |-> "outline", error |-> "", h1 |-> "Model Title",
      sections |-> <<[h2 |-> "Intro", word_count |-> 700],
                     [h2 |-> "End", word_count |-> 800]>>],
     [kind |-> "bad_counts", error |-> "", h1 |-> "Model Title",
      sections |-> <<[h2 |-> "Intro", word_count |-> 200]>>],
     [kind |-> "array", error |-> "", h1 |-> "Model Title", sections |-> <<>>]}

\* The outline the model returned.
ModelOutline(reply) == [h1 |-> reply.h1, sections |-> reply.sections]

outline_generate_outline_Scaled(serp_analysis, topic, target_word_count, reply) ==
    IF \E f \in JoinedFields : ~CanJoin(serp_analysis[f])
    THEN [raises |-> TRUE, called |-> FALSE, value |-> NULL]
    ELSE IF reply.kind = "outline"
    THEN [raises |-> FALSE, called |-> TRUE, value |-> ModelOutline(reply)]
    ELSE [raises |-> FALSE, called |-> TRUE,
          value |-> [h1 |-> "The Complete Guide to " \o Title(topic),
                     sections |-> fallback_sections(topic,
                         [k \in 1..5 |-> (FallbackWordCounts[k] * target_word_count) \div 1300])]]

\* OutlineGenerator.generate_outline: the prompt is built before the try and
\* raises when a list of the analysis cannot be joined.  Inside the try the
\* model is called and the outline's sections and word counts are summed up
\* for the log; an exception of the call, of outline.get on an array, or of
\* the sum over strings ends in the except clause, which returns the
\* fallback outline.
outline_generate_outline(serp_analysis, topic, target_word_count, reply) ==
    IF \E f \in JoinedFields : ~CanJoin(serp_analysis[f])
    THEN [raises |-> TRUE, called |-> FALSE, value |-> NULL]
    ELSE IF reply.kind = "outline"
    THEN [raises |-> FALSE, called |-> TRUE, value |-> ModelOutline(reply)]
    ELSE [raises |-> FALSE, called |-> TRUE, value |-> fallback_outline(topic)]

OutlineTopics ==
    {"seo tips", "AI in 3d", "c++ basics", "REMOTE work", "o'neil's law", "python"}

OutlineTargets == {500, 1300, 5000}

OutlineAnalyses ==
    {[common_topics |-> <<Str("tools")>>, subtopics |-> <<>>,
      recommended_h2_headings |-> <<Str("Intro"), Str("Tips")>>,
      secondary_keywords |-> <<Str("seo")>>],
     [common_topics |-> <<Str("tools")>>, subtopics |-> <<>>,
      recommended_h2_headings |-> <<>>,
      secondary_keywords |-> <<Str("seo"), Other("2024")>>]}

InitOutline ==
    /\ NoService
    /\ \E serp_analysis \in OutlineAnalyses, topic \in OutlineTopics,
          target_word_count \in OutlineTargets :
          unit = [op |-> "generate_outline", pc |-> "start",
                  serp_analysis |-> serp_analysis, topic |-> topic,
                  target_word_count |-> target_word_count,
                  reply |-> NULL, result |-> NULL, exc |-> NULL]

\* One call of generate_outline; reply is what the model call gives, noted
\* in the frame when the call is made.
GenerateOutline(reply) ==
    /\ unit # NULL
    /\ unit.op = "generate_outline"
    /\ unit.pc = "start"
    /\ LET r == outline_generate_outline(unit.serp_analysis, unit.topic,
                                         unit.target_word_count, reply)
       IN  unit' = [unit EXCEPT
                      !.pc = "done",
                      !.reply = IF r.called THEN Some(reply) ELSE NULL,
                      !.result = IF r.raises THEN NULL ELSE Some(r.value),
                      !.exc = IF r.raises THEN Some("TypeError") ELSE NULL]
    /\ UNCHANGED service_vars

NextOutline == \E reply \in OutlineReplies : GenerateOutline(reply)

SpecOutline == InitOutline /\ [][NextOutline]_vars

\* ---------------------------------------------------------------- claims

\* The model call of a finished generate_outline was made and raised.
OutlineCallFailed ==
    /\ unit # NULL
    /\ unit.op = "generate_outline"
    /\ unit.pc = "done"
    /\ unit.reply # NULL
    /\ unit.reply[1].kind = "raise"

\* C22: when the model call for the outline fails, generate_outline returns
\* an outline whose h1 contains the topic in title case and which has five
\* sections of 200, 300, 250, 400 and 150 words, 1300 in all, whatever the
\* target word count.
C22_FallbackOutline ==
    OutlineCallFailed =>
        /\ unit.exc = NULL
        /\ unit.result # NULL
        /\ Contains(unit.result[1].h1, Title(unit.topic))
        /\ Len(unit.result[1].sections) = 5
        /\ [k \in 1..5 |-> unit.result[1].sections[k].word_count]
               = <<200, 300, 250, 400, 150>>
        /\ SumTo([k \in 1..5 |-> unit.result[1].sections[k].word_count], 5) = 1300

\* The call failed for a topic of mixed case and a target of 5000 words.
C22_Witness ==
    /\ OutlineCallFailed
    /\ unit.topic = "AI in 3d"
    /\ unit.target_word_count = 5000
    /\ unit.result # NULL
    /\ unit.result[1].h1 = "The Complete Guide to Ai In 3D"

\* ============================================================ SERP service

\* num_results: int = 10
NumResults == 10

\* get_mock_data: the urls and the titles (around query.title()) of the ten
\* fixed results; the snippets are left out.
MockUrls ==
    << "https://example.com/comprehensive-guide",
       "https://techblog.com/best-practices",
       "https://industry-leader.com/ultimate-guide",
       "https://expert-reviews.com/comparison",
       "https://business-insider.com/trends",
       "https://professional-blog.com/how-to",
       "https://authority-site.com/advanced",
       "https://case-studies.com/success-stories",
       "https://research-institute.com/report",
       "https://community-forum.com/discussion" >>

MockTitles ==
    << <<"The Complete Guide to ", " in 2025">>,
       <<"15 Best ", " Strategies for Success">>,
       <<"Ultimate ", " Guide for Beginners">>,
       <<"Top 10 ", " Tools Compared">>,
       <<"", " Trends to Watch in 2025">>,
       <<"How to Implement ", " Successfully">>,
       <<"Advanced ", " Techniques">>,
       <<"", " Success Stories and Case Studies">>,
       <<"2025 ", " Research Report">>,
       <<"", " Community Discussion and Tips">> >>

\* SerpAPIService.get_mock_data
get_mock_data(query) ==
    [i \in 1..Len(MockUrls) |->
        [rank |-> i, url |-> MockUrls[i],
         title |-> MockTitles[i][1] \o Title(query) \o MockTitles[i][2]]]

\* The most organic results a response of the API holds in the model.
MaxOrganic == 11

\* What requests.get(...) and response.json() give: an exception (timeout,
\* HTTP status, invalid JSON), or an object without "organic_results", or
\* one with a list of items that are complete, lack "link" and "title", or
\* have a link that is no string.
SerpResponses ==
    {[kind |-> "raise", items |-> 0, flaw |-> "none"],
     [kind |-> "no_key", items |-> 0, flaw |-> "none"]}
    \cup [kind : {"results"}, items : 0..MaxOrganic,
          flaw : {"none", "missing_fields", "bad_type"}]

\* One parsed item: SERPResult(rank=i + 1, url=item.get("link", ""), ...).
api_result(i, flaw) ==
    [rank |-> i,
     url |-> IF flaw = "missing_fields" THEN "" ELSE "https://site.test/" \o IntToStr(i),
     title |-> IF flaw = "missing_fields" THEN "" ELSE "Result " \o IntToStr(i)]

\* SerpAPIService.search(query): mock data without an api key or in
\* development; otherwise the first num_results organic results of the
\* response, ranked from 1, or mock data after any exception (SERPResult
\* rejects a url that is no string).
search_results(query, api_key, environment, response) ==
    IF api_key = "" \/ environment = "development"
    THEN [path |-> "mock", value |-> get_mock_data(query)]
    ELSE IF response.kind = "raise"
              \/ (response.kind = "results" /\ response.items > 0
                  /\ response.flaw = "bad_type")
    THEN [path |-> "fallback", value |-> get_mock_data(query)]
    ELSE LET taken == IF response.kind = "no_key" THEN 0
                      ELSE IF response.items < NumResults THEN response.items
                      ELSE NumResults
         IN  [path |-> "api",
              value |-> [i \in 1..taken |-> api_result(i, response.flaw)]]

SerpQueries == {"seo tips", "c++ basics", "REMOTE work"}

ApiKeys == {"", "key-123"}

Environments == {"development", "production"}

InitSerp ==
    /\ NoService
    /\ \E query \in SerpQueries, api_key \in ApiKeys, environment \in Environments :
          unit = [op |-> "search", pc |-> "start", query |-> query,
                  api_key |-> api_key, environment |-> environment,
                  path |-> "none", response |-> NULL, results |-> <<>>]

\* One call of search(query); response is what the API gives when asked.
Search(response) ==
    /\ unit # NULL
    /\ unit.op = "search"
    /\ unit.pc = "start"
    /\ LET r == search_results(unit.query, unit.api_key, unit.environment, response)
       IN  unit' = [unit EXCEPT
                      !.pc = "done",
                      !.path = r.path,
                      !.response = IF r.path = "mock" THEN NULL ELSE Some(response),
                      !.results = r.value]
    /\ UNCHANGED service_vars

NextSerp == \E response \in SerpResponses : Search(response)

SpecSerp == InitSerp /\ [][NextSerp]_vars

\* ---------------------------------------------------------------- claims

SearchDone == unit # NULL /\ unit.op = "search" /\ unit.pc = "done"

\* C23: search(query) returns exactly ten results, ranked 1 to 10 in order,
\* on every path: mock data, the response of the API, mock data after an
\* error of the API.
C23_AlwaysTenResults ==
    SearchDone =>
        /\ Len(unit.results) = 10
        /\ \A i \in 1..Len(unit.results) : unit.results[i].rank = i

\* ============================================================= LLM service

\* What one call of LLMService.generate gives: the text of the response, or
\* an exception of class APIError or of another class, with its message.
TextReply(t) == [kind |-> "text", class |-> "", text |-> t]

ErrorReply(class, message) == [kind |-> "error", class |-> class, text |-> message]

\* 2 ** n
RECURSIVE Pow2(_)
Pow2(n) == IF n = 0 THEN 1 ELSE 2 * Pow2(n - 1)

wait_time_Linear(attempt) == attempt + 1

\* wait_time = 2 ** attempt
wait_time(attempt) == Pow2(attempt)

\* "rate_limit" in str(e).lower(), for an APIError e
IsRateLimit(reply) ==
    /\ reply.kind = "error"
    /\ reply.class = "APIError"
    /\ Contains(Lower(reply.text), "rate_limit")

MaxRetries == 4

RetryReplies ==
    {TextReply("An article."),
     ErrorReply("APIError", "Error code: 429 - rate_limit_error"),
     ErrorReply("APIError", "Rate_Limit reached"),
     ErrorReply("APIError", "Error code: 529 - overloaded_error"),
     ErrorReply("Exception", "LLM service not available."),
     ErrorReply("Exception", "rate_limit in another class")}

InitRetry ==
    /\ NoService
    /\ \E max_retries \in 0..MaxRetries :
          unit = [op |-> "generate_with_retry", pc |-> "call",
                  max_retries |-> max_retries, attempt |-> 0,
                  calls |-> <<>>, waits |-> <<>>,
                  result |-> NULL, exc |-> NULL]

\* generate_with_retry, one pass of the loop body: the call of generate; its
\* text is returned; an APIError that names rate_limit on an attempt that is
\* not the last leads to the sleep; everything else is raised.
RetryCall(reply) ==
    /\ unit # NULL
    /\ unit.op = "generate_with_retry"
    /\ unit.pc = "call"
    /\ unit.attempt < unit.max_retries
    /\ LET called == [unit EXCEPT !.calls = Append(@, reply)] IN
       unit' = IF reply.kind = "text"
               THEN [called EXCEPT !.pc = "returned", !.result = Some(reply.text)]
               ELSE IF IsRateLimit(reply) /\ unit.attempt < unit.max_retries - 1
               THEN [called EXCEPT !.pc = "sleep"]
               ELSE [called EXCEPT !.pc = "raised", !.exc = Some(reply)]
    /\ UNCHANGED service_vars

\* time.sleep(wait_time), then the next pass of the loop.
RetrySleep ==
    /\ unit # NULL
    /\ unit.op = "generate_with_retry"
    /\ unit.pc = "sleep"
    /\ unit' = [unit EXCEPT !.pc = "call",
                            !.waits = Append(@, wait_time(unit.attempt)),
                            !.attempt = @ + 1]
    /\ UNCHANGED service_vars

\* The loop ends without a pass (max_retries <= 0): raise Exception("Max
\* retries exceeded").
RetryExhausted ==
    /\ unit # NULL
    /\ unit.op = "generate_with_retry"
    /\ unit.pc = "call"
    /\ unit.attempt >= unit.max_retries
    /\ unit' = [unit EXCEPT !.pc = "raised",
                            !.exc = Some(ErrorReply("Exception", "Max retries exceeded"))]
    /\ UNCHANGED service_vars

NextRetry ==
    \/ \E reply \in RetryReplies : RetryCall(reply)
    \/ RetrySleep
    \/ RetryExhausted

SpecRetry == InitRetry /\ [][NextRetry]_vars

\* ---------------------------------------------------------------- claims

InRetry == unit # NULL /\ unit.op = "generate_with_retry"

EndsWith(s, suffix) ==
    Len(suffix) <= Len(s) /\ SubSeq(s, Len(s) - Len(suffix) + 1, Len(s)) = suffix

\* generate_json: the response without surrounding whitespace and without a
\* markdown fence around it.  The backquote of the fence is written as an
\* apostrophe in the texts of the model.
clean_response(response) ==
    LET stripped == Strip(response)
        no_json == IF StartsWith(stripped, "'''json")
                   THEN SubSeq(stripped, 8, Len(stripped)) ELSE stripped
        no_open == IF StartsWith(no_json, "'''")
                   THEN SubSeq(no_json, 4, Len(no_json)) ELSE no_json
        no_close == IF EndsWith(no_open, "'''")
                    THEN SubSeq(no_open, 1, Len(no_open) - 3) ELSE no_open
    IN  Strip(no_close)

\* The JSON documents among the texts of the model: what json.loads accepts.
JsonDocuments == {"{\"a\": 1}", "[1]"}

\* The responses of the model: documents bare, fenced and fenced with the
\* language tag, and texts that json.loads rejects after the cleaning: prose
\* before the document, a truncated document, nothing, a fence inside a fence.
JsonTexts ==
    {"{\"a\": 1}",
     " '''json\n{\"a\": 1}\n''' \n",
     "'''\n[1]\n'''",
     "Here is the JSON: {\"a\": 1}",
     "{\"a\": 1",
     "",
     "'''json\n'''\n[1]\n'''\n'''"}

JsonReplies ==
    {TextReply(t) : t \in JsonTexts}
    \cup {ErrorReply("APIError", "Error code: 429 - rate_limit_error"),
          ErrorReply("Exception", "list index out of range")}

MaxJsonRetries == 3

InitJson ==
    /\ NoService
    /\ \E max_retries \in 0..MaxJsonRetries :
          unit = [op |-> "generate_json", pc |-> "call",
                  max_retries |-> max_retries, attempt |-> 0,
                  calls |-> <<>>, sleeps |-> 0,
                  result |-> NULL, exc |-> NULL]

JsonCall_RetryAll(reply) ==
    /\ unit # NULL
    /\ unit.op = "generate_json"
    /\ unit.pc = "call"
    /\ unit.attempt < unit.max_retries
    /\ LET called == [unit EXCEPT !.calls = Append(@, reply)] IN
       unit' = IF reply.kind = "text" /\ clean_response(reply.text) \in JsonDocuments
               THEN [called EXCEPT !.pc = "returned",
                                   !.result = Some(clean_response(reply.text))]
               ELSE IF unit.attempt < unit.max_retries - 1
               THEN [called EXCEPT !.pc = "sleep"]
               ELSE [called EXCEPT !.pc = "raised",
                                   !.exc = Some(IF reply.kind = "text"
                                                THEN ErrorReply("JSONDecodeError", reply.text)
                                                ELSE reply)]
    /\ UNCHANGED service_vars

\* generate_json, one pass of the loop body: the call of generate, the
\* cleaning, json.loads.  The parsed document is returned; a JSONDecodeError
\* on a pass that is not the last leads to the sleep and on the last is
\* raised; any other exception is raised.
JsonCall(reply) ==
    /\ unit # NULL
    /\ unit.op = "generate_json"
    /\ unit.pc = "call"
    /\ unit.attempt < unit.max_retries
    /\ LET called == [unit EXCEPT !.calls = Append(@, reply)] IN
       unit' = IF reply.kind = "error"
               THEN [called EXCEPT !.pc = "raised", !.exc = Some(reply)]
               ELSE IF clean_response(reply.text) \in JsonDocuments
               THEN [called EXCEPT !.pc = "returned",
                                   !.result = Some(clean_response(reply.text))]
               ELSE IF unit.attempt < unit.max_retries - 1
               THEN [called EXCEPT !.pc = "sleep"]
               ELSE [called EXCEPT !.pc = "raised",
                                   !.exc = Some(ErrorReply("JSONDecodeError", reply.text))]
    /\ UNCHANGED service_vars

\* time.sleep(1), then the next pass with the same prompt.
JsonSleep ==
    /\ unit # NULL
    /\ unit.op = "generate_json"
    /\ unit.pc = "sleep"
    /\ unit' = [unit EXCEPT !.pc = "call", !.sleeps = @ + 1, !.attempt = @ + 1]
    /\ UNCHANGED service_vars

\* The loop ends without a pass (max_retries <= 0): the function falls off
\* its end and returns None.
JsonLoopEnd ==
    /\ unit # NULL
    /\ unit.op = "generate_json"
    /\ unit.pc = "call"
    /\ unit.attempt >= unit.max_retries
    /\ unit' = [unit EXCEPT !.pc = "returned", !.result = Some("None")]
    /\ UNCHANGED service_vars

NextJson ==
    \/ \E reply \in JsonReplies : JsonCall(reply)
    \/ JsonSleep
    \/ JsonLoopEnd

SpecJson == InitJson /\ [][NextJson]_vars

\* ---------------------------------------------------------------- claims

InJson == unit # NULL /\ unit.op = "generate_json"

\* A response parses: with the whitespace and one markdown fence around it
\* taken off it is a JSON document.
C25_Parses(reply) ==
    /\ reply.kind = "text"
    /\ \E doc \in JsonDocuments :
          \E pre \in {"", "'''", "'''json"}, post \in {"", "'''"},
             a \in {"", "\n"}, b \in {"", "\n"} :
                 Strip(reply.text) = pre \o a \o doc \o b \o post

\* C25: generate_json asks again only after a response that does not parse,
\* and makes at most max_retries calls; it returns the first response that
\* parses, raises the parse error when the last attempt does not parse, and
\* raises any other failure at once.
C25_JsonRetry ==
    InJson =>
        /\ Len(unit.calls) <= unit.max_retries
        /\ \A k \in 1..Len(unit.calls) :
              LET reply == unit.calls[k]
                  last == k = Len(unit.calls)
              IN  /\ ~last => (reply.kind = "text" /\ ~C25_Parses(reply))
                  /\ (last /\ C25_Parses(reply)) =>
                        (unit.pc = "returned" /\ unit.result # NULL
                         /\ unit.result[1] \in JsonDocuments)
                  /\ (last /\ reply.kind = "error") =>
                        (unit.pc = "raised" /\ unit.exc = Some(reply))
                  /\ (last /\ reply.kind = "text" /\ ~C25_Parses(reply)) =>
                        IF k = unit.max_retries
                        THEN unit.pc = "raised" /\ unit.exc # NULL
                             /\ unit.exc[1].class = "JSONDecodeError"
                        ELSE unit.pc \in {"sleep", "call"}

\* Two responses did not parse and the third, fenced, was returned parsed.
C25_Witness ==
    /\ InJson
    /\ unit.max_retries = 3
    /\ Len(unit.calls) = 3
    /\ unit.calls[1].text = "Here is the JSON: {\"a\": 1}"
    /\ unit.calls[3].text = " '''json\n{\"a\": 1}\n''' \n"
    /\ unit.pc = "returned"
    /\ unit.result = Some("{\"a\": 1}")

\* ------------------------------------------------------------- claim C26

ParseDone == unit # NULL /\ unit.op = "parse" /\ ~IsNull(unit.parsed_sections)

\* A section that is a placeholder: the fixed message and no words.
C26_IsPlaceholder(section) ==
    /\ section.content = "Content parsing failed - article generated but structure unclear."
    /\ section.word_count = 0
    /\ section.heading_level = 2

\* C26: when the article has no H2 heading line (a line of "## " and a
\* heading text), the parser returns one placeholder for every section of
\* the outline, in the outline's order and under that section's h2; a
\* placeholder is returned in no other case, so never next to a parsed
\* section.
C26_PlaceholdersOnlyWithoutH2 ==
    ParseDone =>
        LET sections == unit.parsed_sections[1]
            outline == unit.sections_data
            no_h2 == C13_LinesWithText(unit.full_article) = {}
        IN  /\ no_h2 =>
                  /\ Len(sections) = Len(outline)
                  /\ \A k \in 1..Len(sections) :
                        /\ C26_IsPlaceholder(sections[k])
                        /\ ~IsNull(outline[k].h2) => sections[k].heading = outline[k].h2[1]
            /\ (\E k \in 1..Len(sections) : C26_IsPlaceholder(sections[k])) => no_h2

\* An article of a title and a paragraph, parsed against an outline of two
\* sections: two placeholders, the second under the outline's heading.
C26_Witness ==
    /\ ParseDone
    /\ unit.full_article = "# T\nOne two."
    /\ Len(unit.sections_data) = 2
    /\ Len(unit.parsed_sections[1]) = 2
    /\ C26_IsPlaceholder(unit.parsed_sections[1][1])
    /\ unit.parsed_sections[1][2].heading = "Beta two"

\* ============================================== the service, further claims

\* The checkpoint a job at position pos is about to write, and the step it
\* follows.
C27_Field(pos) == IF pos = "ckpt_serp" THEN "serp_data" ELSE "outline_data"

C27_Follows(pos) == IF pos = "ckpt_serp" THEN "serp" ELSE "outline"

\* C27: a checkpoint write, serp_data after the SERP fetch and before the
\* analysis, outline_data after the outline and before the content, changes
\* at most the named field of its job's row: status, result, error,
\* completed_at and the other checkpoint stay as they were, and so does
\* every other row.
C27_CheckpointWritesOneField ==
    [][\A j \in JobIds :
          (pc[j] \in {"ckpt_serp", "ckpt_outline"} /\ pc'[j] # pc[j]) =>
              /\ DOMAIN db' = DOMAIN db
              /\ \A k \in Rows : \A f \in DOMAIN db[k] :
                    (k # j \/ f # C27_Field(pc[j])) => db'[k][f] = db[k][f]
              /\ log[j][Len(log[j])] = <<"end", C27_Follows(pc[j])>>
              /\ pc'[j] = (IF pc[j] = "ckpt_serp" THEN "analyze" ELSE "content")]_vars

\* Both checkpoints of a job are stored while its status is still PENDING
\* (the write of RUNNING did not commit) and nothing else is set.
C27_Witness ==
    \E j \in Rows :
        /\ pc[j] = "content"
        /\ ~IsNull(db[j].serp_data) /\ ~IsNull(db[j].outline_data)
        /\ db[j].status = PENDING
        /\ IsNull(db[j].result) /\ IsNull(db[j].error) /\ IsNull(db[j].completed_at)

\* C28: whatever point of a running pipeline a poll is interleaved at, its
\* response never shows status completed with an empty result or an empty
\* completed_at, nor status failed with an empty error: a terminal status
\* reaches the table in the same commit as its result or error and its
\* completion timestamp.
C28_TerminalPollIsWhole ==
    \A id \in PollIds :
        LET response == get_job_status(id) IN
        /\ response.status = Some("completed") =>
              ~IsNull(response.result) /\ ~IsNull(response.completed_at)
        /\ response.status = Some("failed") =>
              ~IsNull(response.error) /\ ~IsNull(response.completed_at)

\* A poll of one job answers failed with its message while the pipeline of
\* another job, polled as running, stands right before its final write.
C28_Witness ==
    \E j \in Rows, k \in Rows :
        /\ get_job_status(j).status = Some("failed")
        /\ ~IsNull(get_job_status(j).error)
        /\ pc[k] = "persist"
        /\ get_job_status(k).status = Some("running")
        /\ IsNull(get_job_status(k).result)

\* What step 10 packages from the locals of a run, the quality report erased.
C29_Packaged(l) == ArticleOutput([l EXCEPT !.quality_report = NULL])

\* C29: the outcome of the quality validation does not change the fate of a
\* job. Whatever report step 9 produced, passed or not, step 10 packages the
\* same six parts, none of them the report, and its write (when it commits)
\* makes the job COMPLETED with that package as the stored result.
C29_ReportChangesNothing ==
    [][\A j \in JobIds :
          (pc[j] = "persist" /\ pc'[j] # pc[j]) =>
              /\ loc[j].quality_report \in {Some("passed"), Some("needs_review")}
              /\ DOMAIN C29_Packaged(loc[j]) =
                    {"article", "seo_metadata", "keyword_analysis", "internal_links",
                     "external_references", "serp_analysis"}
              /\ \A part \in DOMAIN C29_Packaged(loc[j]) :
                    C29_Packaged(loc[j])[part] # loc[j].quality_report[1]
              /\ (j \in Rows /\ "result" \notin hist'[j].failed_writes) =>
                    /\ db'[j].status = COMPLETED
                    /\ db'[j].result = Some(C29_Packaged(loc[j]))
                    /\ IsNull(db'[j].error)]_vars

\* A run whose report did not pass has stored its result and is COMPLETED.
C29_Witness ==
    \E j \in Rows :
        /\ pc[j] = "return"
        /\ loc[j].quality_report = Some("needs_review")
        /\ db[j].status = COMPLETED
        /\ db[j].result = Some(C29_Packaged(loc[j]))

\* ------------------------------------------------- the service, kept running

\* The steps of job j's background task: run_generation, generate() and its
\* except clause. Each call the task makes returns or fails, so a step that
\* is due can be taken.
Pipeline(j) ==
    \/ RunGeneration(j)
    \/ \E ok \in BOOLEAN : UpdateStatusRunning(j, ok)
    \/ StepSerp(j)
    \/ \E ok \in BOOLEAN : CheckpointSerp(j, ok)
    \/ \E out \in JsonOutcomes : StepAnalyze(j, out)
    \/ \E out \in JsonOutcomes : StepOutline(j, out)
    \/ \E ok \in BOOLEAN : CheckpointOutline(j, ok)
    \/ \E oneshot \in OneShotOutcomes, sections \in SectionOutcomes :
          StepContent(j, oneshot, sections)
    \/ \E out \in JsonOutcomes : StepMetadata(j, out)
    \/ \E out \in JsonOutcomes : StepLinks(j, out)
    \/ \E out \in JsonOutcomes : StepReferences(j, out)
    \/ StepKeywords(j)
    \/ \E passed \in BOOLEAN : StepValidate(j, passed)
    \/ \E ok \in BOOLEAN : StepPersist(j, ok)
    \/ Return(j)
    \/ \E ok \in BOOLEAN : Except(j, ok)
    \/ RunGenerationExcept(j)

\* The service while its process keeps running: the event loop resumes every
\* background task whose awaited call has returned or failed.
SpecLive == Init /\ [][Next]_vars /\ \A j \in JobIds : WF_vars(Pipeline(j))

\* Every background task that starts runs to its end.
C30_TaskEnds == \A j \in JobIds : (pc[j] = "update_status") ~> (pc[j] = "done")

\* C30: every job whose pipeline starts eventually reaches COMPLETED or
\* FAILED, as long as the process keeps running and every model and storage
\* call returns or fails.
C30_EveryJobEnds ==
    \A j \in JobIds :
        (pc[j] = "update_status") ~> (j \in Rows /\ db[j].status \in Terminal)

====
